---- MODULE Spec2Model ----
(***************************************************************************)
(* daily-news: the scraper layer (scrapers/base.py, cnn.py, techcrunch.py, *)
(* scmp_scraper.py), the aggregation manager (scrapers/manager.py), the    *)
(* selector (ai_services.py), news_fetcher.py and __main__.py.             *)
(*                                                                         *)
(* Python values are modelled as follows.  A str is a TLA+ string; None is *)
(* the reserved string None.  A list is a sequence, a dict with insertion  *)
(* order is a sequence of entries.  An optional list argument is a record  *)
(* [none, items].  A call that may raise returns a record [exc, val, gets] *)
(* where exc is NoExc or the exception's class, and gets is the list of    *)
(* URLs requested from the network during the call.  An HTML element is    *)
(* the record of what the adapter's selectors find in it.  Every value a   *)
(* call returns is a list of records: the list itself, or the one-element  *)
(* list of the dict or of the str ([text]) returned.                       *)
(***************************************************************************)
EXTENDS Integers, Sequences, FiniteSets, TLC

VARIABLES
    scrapers,   \* ScraperManager.scrapers: the registry, in insertion order
    pc,         \* "idle", "returned" or "raised": where the current call stands
    call,       \* the call in progress or just finished: its name and arguments
                \* and, for fetch_detailed_content, the caller's list as the
                \* call left it (articles_after) and the identity of each
                \* object of the output (refs)
    ret,        \* the value the call returned (when pc = "returned"), or the
                \* exception it raised: <<[exception |-> its class]>>
    gets,       \* the URLs requested from the network by the call, in order
    calls       \* the methods the call called on adapters and on self, in order

vars == <<scrapers, pc, call, ret, gets, calls>>

(***************************************************************************)
(* Bounds of the model.                                                    *)
(***************************************************************************)
MaxElems == 3      \* candidate elements on a listing page (adapter calls)
MaxCap == 2        \* largest max_articles argument
MaxListing == 2    \* candidate elements on a listing page (manager calls)
MaxBatch == 3      \* length of the article lists given to the manager

(***************************************************************************)
(* Python values.                                                          *)
(***************************************************************************)
None == "<None>"
NoExc == "<no exception>"

PyNone == [none |-> TRUE, items |-> <<>>]
PyList(s) == [none |-> FALSE, items |-> s]
\* `not x` for an optional list: None and the empty list are falsy
Falsy(x) == x.none \/ x.items = <<>>

Returns(v, g) == [exc |-> NoExc, val |-> v, gets |-> g]
Raises(e, g) == [exc |-> e, val |-> <<>>, gets |-> g]

SeqsUpTo(S, n) == UNION {[1..k -> S] : k \in 0..n}

\* s[:n] for n >= 0
Take(s, n) == SubSeq(s, 1, IF n < Len(s) THEN n ELSE Len(s))

Range(s) == {s[i] : i \in 1..Len(s)}

\* the URLs of a list of articles
Urls(articles) == {articles[i].url : i \in 1..Len(articles)}

(***************************************************************************)
(* str operations.                                                         *)
(***************************************************************************)
UpperCase == "ABCDEFGHIJKLMNOPQRSTUVWXYZ"
LowerCase == "abcdefghijklmnopqrstuvwxyz"

\* the lower-case letter of each upper-case letter
LowerOf ==
    [c \in {SubSeq(UpperCase, i, i) : i \in 1..Len(UpperCase)} |->
        LET i == CHOOSE j \in 1..Len(UpperCase) : SubSeq(UpperCase, j, j) = c
        IN SubSeq(LowerCase, i, i)]

LowerChar(c) == IF c \in DOMAIN LowerOf THEN LowerOf[c] ELSE c

RECURSIVE Lower(_)
\* str.lower()
Lower(s) == IF s = "" THEN "" ELSE LowerChar(SubSeq(s, 1, 1)) \o Lower(Tail(s))

\* `sub in s`
Contains(s, sub) ==
    \E i \in 1..(Len(s) - Len(sub) + 1) : SubSeq(s, i, i + Len(sub) - 1) = sub

\* s.startswith(prefix)
StartsWith(s, prefix) ==
    Len(s) >= Len(prefix) /\ SubSeq(s, 1, Len(prefix)) = prefix

\* urllib.parse.urljoin(base, ref) for a base without a path and a reference
\* that is a path (absolute or not); a reference with a scheme replaces base
UrlJoin(base, ref) ==
    IF StartsWith(ref, "http://") \/ StartsWith(ref, "https://") THEN ref
    ELSE IF ref = "" THEN base
    ELSE IF StartsWith(ref, "/") THEN base \o ref
    ELSE base \o "/" \o ref

Digits == {"0", "1", "2", "3", "4", "5", "6", "7", "8", "9"}

\* the strings datetime.fromisoformat accepts, of the shape YYYY-MM-DDTHH:MM:SS
IsIsoFormat(s) ==
    /\ Len(s) = 19
    /\ \A i \in {1, 2, 3, 4, 6, 7, 9, 10, 12, 13, 15, 16, 18, 19} :
           SubSeq(s, i, i) \in Digits
    /\ SubSeq(s, 5, 5) = "-" /\ SubSeq(s, 8, 8) = "-"
    /\ SubSeq(s, 11, 11) \in {"T", " "}
    /\ SubSeq(s, 14, 14) = ":" /\ SubSeq(s, 17, 17) = ":"

\* datetime.fromisoformat(s).strftime("%Y-%m-%d %H:%M:%S")
IsoToStamp(s) == SubSeq(s, 1, 10) \o " " \o SubSeq(s, 12, 19)

\* datetime.now().strftime("%Y-%m-%d %H:%M:%S"): the clock of the run
NowStamp == "2026-01-01 00:00:00"

(***************************************************************************)
(* Article records (base.NewsArticle) and the adapters.                    *)
(***************************************************************************)
NewsArticle(title, url, published_date, source, category, content) ==
    [title |-> title, url |-> url, published_date |-> published_date,
     source |-> source, category |-> category, content |-> content]

\* NewsScraper.__init__: the fields of an adapter
NewsScraper(cls, base_url, category_urls, source_name) ==
    [cls |-> cls, base_url |-> base_url, category_urls |-> category_urls,
     source_name |-> source_name]

CNN_CATEGORY_URLS ==
    ("default" :> "/world") @@ ("latest" :> "/world") @@ ("world" :> "/world")
    @@ ("us" :> "/us") @@ ("technology" :> "/business/tech")
    @@ ("general" :> "/weather")

CNNScraper == NewsScraper("CNNScraper", "https://www.cnn.com", CNN_CATEGORY_URLS, "CNN")

TECHCRUNCH_CATEGORY_URLS ==
    ("default" :> "/latest ") @@ ("latest" :> "/latest ")
    @@ ("ai" :> "/category/artificial-intelligence") @@ ("amazon" :> "/tag/amazon")
    @@ ("apps" :> "/category/apps") @@ ("biotech-health" :> "/category/biotech-health")
    @@ ("climate" :> "/category/climate") @@ ("cloud" :> "/tag/cloud-computing")
    @@ ("commerce" :> "/category/commerce") @@ ("crypto" :> "/category/cryptocurrency")
    @@ ("enterprise" :> "/category/enterprise") @@ ("electric vehicles" :> "/tag/evs")
    @@ ("fintech" :> "/category/fintech") @@ ("fundraising" :> "/category/fundraising")
    @@ ("gadgets" :> "/category/gadgets") @@ ("gaming" :> "/category/gaming")
    @@ ("google" :> "/tag/google") @@ ("government" :> "/category/government-policy")
    @@ ("hardware" :> "/category/hardware") @@ ("instagram" :> "/tag/instagram")
    @@ ("layoffs" :> "/tag/layoffs")
    @@ ("media entertainment" :> "/category/media-entertainment")
    @@ ("meta" :> "/tag/meta") @@ ("microsoft" :> "/tag/microsoft")
    @@ ("privacy" :> "/category/privacy") @@ ("robotics" :> "/category/robots")
    @@ ("social" :> "/category/social") @@ ("space" :> "/category/space")
    @@ ("startups" :> "/category/startups") @@ ("tiktok" :> "/tags/tiktok")
    @@ ("transportation" :> "/category/transportation")
    @@ ("venture" :> "/category/venture")

TechCrunchScraper ==
    NewsScraper("TechCrunchScraper", "https://techcrunch.com",
                TECHCRUNCH_CATEGORY_URLS, "TechCrunch")

SCMP_CATEGORY_URLS ==
    ("default" :> "/") @@ ("China" :> "/news/china")
    @@ ("China Military" :> "/news/china/military")
    @@ ("China Diplomacy" :> "/news/china/diplomacy")
    @@ ("China Politics" :> "/news/china/politics")
    @@ ("China Science" :> "/news/china/science")
    @@ ("China Future Tech" :> "/news/china-future-tech")
    @@ ("Hong Kong" :> "/news/hong-kong")
    @@ ("Hong Kong Politics" :> "/news/hong-kong/politics")
    @@ ("Hong Kong Economy" :> "/news/hong-kong/hong-kong-economy")
    @@ ("Hong Kong Health & Environment" :> "/news/hong-kong/health-environment")
    @@ ("Hong Kong Law and Crime" :> "/news/hong-kong/law-and-crime")
    @@ ("Hong Kong Society" :> "/news/hong-kong/society")
    @@ ("Hong Kong Education" :> "/news/hong-kong/education")
    @@ ("Food & Drink" :> "/lifestyle/food-drink")
    @@ ("Health & Wellness" :> "/lifestyle/health-wellness")
    @@ ("Chinese culture" :> "/lifestyle/chinese-culture")
    @@ ("Arts" :> "/lifestyle/arts") @@ ("People & Culture" :> "/news/people-culture")
    @@ ("China Personalities" :> "/news/people-culture/china-personalities")
    @@ ("Trending in China" :> "/news/people-culture/trending-china")
    @@ ("Gender & Diversity" :> "/news/people-culture/gender-diversity")
    @@ ("Environment" :> "/news/people-culture/environment")
    @@ ("Social Welfare" :> "/news/people-culture/social-welfare")
    @@ ("Style" :> "/magazines/style") @@ ("Luxury" :> "/magazines/style/luxury")
    @@ ("Fashion" :> "/magazines/style/fashion")
    @@ ("Beauty" :> "/magazines/style/beauty")
    @@ ("Lifestyle" :> "/magazines/style/lifestyle")
    @@ ("People" :> "/magazines/style/people")

SCMPScraper == NewsScraper("SCMPScraper", "https://www.scmp.com", SCMP_CATEGORY_URLS, "SCMP")

\* SCMPScraper.api_url
SCMP_API_URL == "https://apigw.scmp.com" \o "/content-delivery/v2"

Adapters == {CNNScraper, TechCrunchScraper, SCMPScraper}

(***************************************************************************)
(* The network.  web maps a URL to the response a GET of it gets: a record *)
(* [kind, status, body] with kind "response" or "exception" (timeout,      *)
(* connection error).  The body of a listing page is [elems |-> the        *)
(* elements the adapter's selector matches, in document order]; an element *)
(* is [title, href, time, cat]: the text of its title element (None when   *)
(* it has none), the href of its link ("" when it has none), the datetime  *)
(* attribute of its time element (None when absent) and the text of its    *)
(* category label (None when absent).  The body of an article page is     *)
(* [h1, alt_title, entry, paragraphs, time]: the text of its headline      *)
(* element, the title carried by an attribute (TechCrunch: main's          *)
(* data-title-observer, CNN: the og:title meta), the text of TechCrunch's  *)
(* div.entry-content, CNN's paragraphs as [text, ad] (ad: the parent's     *)
(* class names an ad or a promo), and the datetime of the time element;    *)
(* None where the element is missing.                                      *)
(***************************************************************************)
HttpOk(body) == [kind |-> "response", status |-> 200, body |-> body]
HttpStatus(code) == [kind |-> "response", status |-> code, body |-> <<>>]
HttpException == [kind |-> "exception", status |-> 0, body |-> <<>>]

Element(title, href, time, cat) ==
    [title |-> title, href |-> href, time |-> time, cat |-> cat]

\* NewsScraper.fetch_html_content: <<soup>>, or <<>> for Python's None
fetch_html_content(url, web) ==
    LET response == web[url]
    IN IF response.kind = "exception" THEN <<>>
       ELSE IF response.status # 200 THEN <<>>
       ELSE <<response.body>>

\* NewsScraper.get_category_url
get_category_url(scraper, category) ==
    IF category \notin DOMAIN scraper.category_urls
    THEN Raises("ValueError", <<>>)
    ELSE Returns(UrlJoin(scraper.base_url, scraper.category_urls[category]), <<>>)

\* a selector that forgets the [:max_articles] slice
select_article_elements_uncapped(soup, max_articles) == soup.elems

\* CNNScraper._select_article_elements / TechCrunchScraper._select_article_elements
select_article_elements(soup, max_articles) == Take(soup.elems, max_articles)

\* CNNScraper._extract_article_from_list_item: <<article>>, or <<>> for None
cnn_extract_article_from_list_item(scraper, element, category) ==
    IF element.title = None THEN Returns(<<>>, <<>>)
    ELSE LET found == element.href
             article_url_str ==
                 IF found # "" /\ ~StartsWith(found, "http")
                 THEN UrlJoin(scraper.base_url, found)
                 ELSE found
         IN IF article_url_str = "" \/ Contains(article_url_str, "/videos/")
            THEN Returns(<<>>, <<>>)
            ELSE Returns(<<NewsArticle(element.title, article_url_str, None,
                                       scraper.source_name, category, None)>>, <<>>)

\* an extraction that forgets the check of the link
techcrunch_extract_without_link_check(scraper, element, category) ==
    IF element.title = None THEN Returns(<<>>, <<>>)
    ELSE IF element.time # None /\ ~IsIsoFormat(element.time)
    THEN Raises("ValueError", <<>>)
    ELSE LET published_date ==
                 IF element.time # None THEN IsoToStamp(element.time) ELSE NowStamp
             card_category == IF element.cat # None THEN element.cat ELSE category
         IN Returns(<<NewsArticle(element.title, element.href, published_date,
                                  scraper.source_name, card_category, None)>>, <<>>)

\* TechCrunchScraper._extract_article_from_list_item
techcrunch_extract_article_from_list_item(scraper, element, category) ==
    IF element.title = None THEN Returns(<<>>, <<>>)
    ELSE IF element.href = "" THEN Returns(<<>>, <<>>)
    ELSE IF element.time # None /\ ~IsIsoFormat(element.time)
    THEN Raises("ValueError", <<>>)   \* datetime.fromisoformat, not guarded
    ELSE LET published_date ==
                 IF element.time # None THEN IsoToStamp(element.time) ELSE NowStamp
             card_category == IF element.cat # None THEN element.cat ELSE category
         IN Returns(<<NewsArticle(element.title, element.href, published_date,
                                  scraper.source_name, card_category, None)>>, <<>>)

\* the adapter's _extract_article_from_list_item
extract_article_from_list_item(scraper, element, category) ==
    IF scraper.cls = "CNNScraper"
    THEN cnn_extract_article_from_list_item(scraper, element, category)
    ELSE techcrunch_extract_article_from_list_item(scraper, element, category)

RECURSIVE ExtractLoop(_, _, _, _)
\* NewsScraper.fetch_articles, the loop over article_elements: the list
\* `articles` after the loop, or the exception that left it
ExtractLoop(scraper, elements, category, articles) ==
    IF elements = <<>> THEN Returns(articles, <<>>)
    ELSE LET r == extract_article_from_list_item(scraper, Head(elements), category)
         IN IF r.exc # NoExc THEN Raises(r.exc, <<>>)
            ELSE ExtractLoop(scraper, Tail(elements), category, articles \o r.val)

\* a fetch_articles whose page request lets a timeout or a network exception
\* through
base_fetch_articles_transport_raises(scraper, category, max_articles, web) ==
    LET u == get_category_url(scraper, category)
    IN IF u.exc = "ValueError" THEN Returns(<<>>, <<>>)
       ELSE IF web[u.val].kind = "exception" THEN Raises("ConnectionError", <<u.val>>)
       ELSE LET soup == fetch_html_content(u.val, web)
            IN IF soup = <<>> THEN Returns(<<>>, <<u.val>>)
               ELSE LET article_elements ==
                            select_article_elements(soup[1], max_articles)
                        r == ExtractLoop(scraper, article_elements, category, <<>>)
                    IN [r EXCEPT !.gets = <<u.val>>]

\* NewsScraper.fetch_articles (CNN and TechCrunch inherit it)
base_fetch_articles(scraper, category, max_articles, web) ==
    LET u == get_category_url(scraper, category)
    IN IF u.exc = "ValueError" THEN Returns(<<>>, <<>>)
       ELSE LET soup == fetch_html_content(u.val, web)
            IN IF soup = <<>> THEN Returns(<<>>, <<u.val>>)
               ELSE LET article_elements ==
                            select_article_elements(soup[1], max_articles)
                        r == ExtractLoop(scraper, article_elements, category, <<>>)
                    IN [r EXCEPT !.gets = <<u.val>>]

(***************************************************************************)
(* Article pages: fetch_article_by_url.                                    *)
(***************************************************************************)
ArticlePage(h1, alt_title, entry, paragraphs, time) ==
    [h1 |-> h1, alt_title |-> alt_title, entry |-> entry,
     paragraphs |-> paragraphs, time |-> time]

\* TechCrunchScraper._extract_title
techcrunch_extract_title(soup) ==
    IF soup.h1 # None THEN soup.h1
    ELSE IF soup.alt_title # None /\ soup.alt_title # "" THEN soup.alt_title
    ELSE "No title found"

\* TechCrunchScraper._extract_published_date
techcrunch_extract_published_date(soup) ==
    IF soup.time # None /\ IsIsoFormat(soup.time) THEN IsoToStamp(soup.time) ELSE None

\* TechCrunchScraper._extract_content
techcrunch_extract_content(soup) ==
    IF soup.entry # None THEN soup.entry ELSE "No content available."

\* TechCrunchScraper._extract_article_info
techcrunch_extract_article_info(news_article, soup) ==
    [news_article EXCEPT !.title = techcrunch_extract_title(soup),
                         !.published_date = techcrunch_extract_published_date(soup),
                         !.content = techcrunch_extract_content(soup)]

\* CNNScraper._extract_title: select_one takes the first match in document
\* order, and the og:title meta of the head precedes any h1 of the body
cnn_extract_title(soup) ==
    LET title == IF soup.alt_title # None THEN soup.alt_title
                 ELSE IF soup.h1 # None THEN soup.h1
                 ELSE "No title found"
    IN IF title # "" THEN title ELSE "No title found"

\* CNNScraper._extract_published_date, for datetimes without a zone name
cnn_extract_published_date(soup) ==
    IF soup.time # None /\ IsIsoFormat(soup.time) THEN IsoToStamp(soup.time) ELSE None

RECURSIVE JoinParagraphs(_)
\* "\n\n".join(content_texts)
JoinParagraphs(texts) ==
    IF texts = <<>> THEN ""
    ELSE IF Len(texts) = 1 THEN texts[1]
    ELSE texts[1] \o "\n\n" \o JoinParagraphs(Tail(texts))

\* CNNScraper._extract_content
cnn_extract_content(soup) ==
    LET kept == SelectSeq(soup.paragraphs, LAMBDA p : ~p.ad)
        content_texts == [i \in 1..Len(kept) |-> kept[i].text]
    IN IF content_texts # <<>> THEN JoinParagraphs(content_texts)
       ELSE "No content available."

\* CNNScraper._extract_article_info; the url given is never empty here
cnn_extract_article_info(news_article, soup) ==
    [news_article EXCEPT !.title = cnn_extract_title(soup),
                         !.published_date = cnn_extract_published_date(soup),
                         !.content = cnn_extract_content(soup)]

\* CNNScraper.fetch_article_by_url / TechCrunchScraper.fetch_article_by_url /
\* SCMPScraper.fetch_article_by_url (`pass`: returns None, requests nothing)
fetch_article_by_url(scraper, url, web) ==
    IF scraper.cls = "SCMPScraper" THEN Returns(<<>>, <<>>)
    ELSE LET soup == fetch_html_content(url, web)
         IN IF soup = <<>> THEN Raises("ValueError", <<url>>)
            ELSE LET article == NewsArticle("", url, None, scraper.source_name, None, None)
                 IN Returns(<<IF scraper.cls = "CNNScraper"
                              THEN cnn_extract_article_info(article, soup[1])
                              ELSE techcrunch_extract_article_info(article, soup[1])>>,
                            <<url>>)

(***************************************************************************)
(* SCMP.  The body of an API response is the JSON value as far as the code *)
(* looks at it: [edges_is_list, edges], the value at data.contents.edges,  *)
(* each edge being [has_node] (whether it is a dict with a dict "node").   *)
(***************************************************************************)
ApiData(edges_is_list, edges) == [edges_is_list |-> edges_is_list, edges |-> edges]

\* SCMPScraper._fetch_api_data; {} has no edges
scmp_fetch_api_data(web) ==
    LET response == web[SCMP_API_URL]
    IN IF response.kind = "exception" THEN ApiData(TRUE, <<>>)
       ELSE IF response.status >= 400 /\ response.status < 600 THEN ApiData(TRUE, <<>>)
       ELSE response.body

\* SCMPScraper._select_raw_articles_from_api
scmp_select_raw_articles_from_api(api_data, max_articles) ==
    IF ~api_data.edges_is_list THEN <<>>
    ELSE LET raw_articles == SelectSeq(api_data.edges, LAMBDA edge : edge.has_node)
         IN Take(raw_articles, max_articles)

\* SCMPScraper._extract_article_from_api_item: its body is `pass`
scmp_extract_article_from_api_item(item_data, category) == <<>>

RECURSIVE ScmpExtractLoop(_, _)
\* SCMPScraper.fetch_articles, the loop over raw_articles
ScmpExtractLoop(raw_articles, articles) ==
    IF raw_articles = <<>> THEN articles
    ELSE ScmpExtractLoop(Tail(raw_articles),
             articles \o scmp_extract_article_from_api_item(Head(raw_articles), "home"))

\* SCMPScraper.fetch_articles: the category is only logged
scmp_fetch_articles(scraper, category, max_articles, web) ==
    LET api_data == scmp_fetch_api_data(web)
        raw_articles == scmp_select_raw_articles_from_api(api_data, max_articles)
    IN Returns(ScmpExtractLoop(raw_articles, <<>>), <<SCMP_API_URL>>)

\* scraper.fetch_articles(category, max_articles), by the adapter's class
fetch_articles(scraper, category, max_articles, web) ==
    IF scraper.cls = "SCMPScraper"
    THEN scmp_fetch_articles(scraper, category, max_articles, web)
    ELSE base_fetch_articles(scraper, category, max_articles, web)

(***************************************************************************)
(* ScraperManager.  The registry is a dict in insertion order: a sequence  *)
(* of entries [name, scraper].  Every call the manager makes on an adapter *)
(* is logged as [name, method, args, exc, val].                            *)
(***************************************************************************)
Keys(registry) == [i \in 1..Len(registry) |-> registry[i].name]
HasKey(registry, name) == \E i \in 1..Len(registry) : registry[i].name = name
Get(registry, name) ==
    registry[CHOOSE i \in 1..Len(registry) : registry[i].name = name].scraper

LogCall(name, method, args, r) ==
    [name |-> name, method |-> method, args |-> args, exc |-> r.exc, val |-> r.val]

RECURSIVE AddArticlesNoDedup(_, _)
\* a merge that never looks at seen_urls
AddArticlesNoDedup(articles, acc) ==
    IF articles = <<>> THEN acc
    ELSE AddArticlesNoDedup(Tail(articles),
             [acc EXCEPT !.seen_urls = @ \cup {Head(articles).url},
                         !.results = Append(@, Head(articles))])

RECURSIVE AddArticlesLastWins(_, _)
\* a merge in which a later duplicate replaces the record kept so far
AddArticlesLastWins(articles, acc) ==
    IF articles = <<>> THEN acc
    ELSE LET article == Head(articles)
             url == article.url
         IN AddArticlesLastWins(Tail(articles),
                IF url \notin acc.seen_urls
                THEN [acc EXCEPT !.seen_urls = @ \cup {url},
                                 !.results = Append(@, article)]
                ELSE [acc EXCEPT !.results =
                          [i \in 1..Len(@) |-> IF @[i].url = url THEN article ELSE @[i]]])

RECURSIVE AddArticles(_, _)
\* fetch_headlines, the loop over the articles of one fetch: acc carries
\* results and seen_urls
AddArticles(articles, acc) ==
    IF articles = <<>> THEN acc
    ELSE LET article == Head(articles)
             url == article.url
         IN AddArticles(Tail(articles),
                IF url \notin acc.seen_urls
                THEN [acc EXCEPT !.seen_urls = @ \cup {url},
                                 !.results = Append(@, article)]
                ELSE acc)

RECURSIVE CategoryLoop(_, _, _, _, _, _)
\* fetch_headlines, the loop over categories for one source; an exception
\* of fetch_articles is not caught and ends the call
CategoryLoop(source_name, scraper, categories, max_articles, web, acc) ==
    IF categories = <<>> THEN acc
    ELSE LET category == Head(categories)
             r == fetch_articles(scraper, category, max_articles, web)
             logged == [acc EXCEPT
                          !.calls = Append(@, LogCall(source_name, "fetch_articles",
                                                      <<category, max_articles>>, r)),
                          !.gets = @ \o r.gets]
         IN IF r.exc # NoExc THEN [logged EXCEPT !.exc = r.exc]
            ELSE CategoryLoop(source_name, scraper, Tail(categories), max_articles,
                              web, AddArticles(r.val, logged))

RECURSIVE SourceLoop(_, _, _, _, _, _)
\* fetch_headlines, the loop over sources
SourceLoop(registry, sources, categories, max_articles, web, acc) ==
    IF sources = <<>> THEN acc
    ELSE LET source_name == Head(sources)
         IN IF ~HasKey(registry, source_name)
            THEN SourceLoop(registry, Tail(sources), categories, max_articles, web, acc)
            ELSE LET after == CategoryLoop(source_name, Get(registry, source_name),
                                           categories, max_articles, web, acc)
                 IN IF after.exc # NoExc THEN after
                    ELSE SourceLoop(registry, Tail(sources), categories,
                                    max_articles, web, after)

RECURSIVE CategoriesOuterLoop(_, _, _, _, _, _)
\* the two loops exchanged: categories outside, sources inside
CategoriesOuterLoop(registry, sources, categories, max_articles, web, acc) ==
    IF categories = <<>> \/ acc.exc # NoExc THEN acc
    ELSE CategoriesOuterLoop(registry, sources, Tail(categories), max_articles, web,
             SourceLoop(registry, sources, <<Head(categories)>>, max_articles, web, acc))

fetch_headlines_categories_outer(registry, sources, categories, max_articles_per_source, web) ==
    LET sources1 == IF Falsy(sources) THEN Keys(registry) ELSE sources.items
        categories1 == IF Falsy(categories) THEN <<"default">> ELSE categories.items
    IN CategoriesOuterLoop(registry, sources1, categories1, max_articles_per_source,
                           web, [exc |-> NoExc, results |-> <<>>, seen_urls |-> {},
                                 calls |-> <<>>, gets |-> <<>>])

\* ScraperManager.fetch_headlines: [exc, results, seen_urls, calls, gets]
fetch_headlines(registry, sources, categories, max_articles_per_source, web) ==
    LET sources1 == IF Falsy(sources) THEN Keys(registry) ELSE sources.items
        categories1 == IF Falsy(categories) THEN <<"default">> ELSE categories.items
    IN SourceLoop(registry, sources1, categories1, max_articles_per_source, web,
                  [exc |-> NoExc, results |-> <<>>, seen_urls |-> {},
                   calls |-> <<>>, gets |-> <<>>])

\* Python's None where an article is expected
NoneObject == [is_none |-> TRUE]

\* the identity of a dict made during the call; the objects of the caller's
\* list have the identities 1, 2, ... of their positions
NewObject == 0

\* article.get("source", ""): the source of a record, "" for a record
\* without the key
get_source(article) == IF "source" \in DOMAIN article THEN article.source ELSE ""

RECURSIVE GroupedSoFar(_)
\* how many articles the grouping loop has put in articles_by_source
GroupedSoFar(articles_by_source) ==
    IF articles_by_source = <<>> THEN 0
    ELSE Len(Head(articles_by_source).articles) + GroupedSoFar(Tail(articles_by_source))

RECURSIVE GroupBySource(_, _)
\* fetch_detailed_content, the grouping loop: articles_by_source as a
\* sequence of [source, articles, ids] in insertion order. The lists of
\* articles_by_source hold the caller's dict objects themselves, so each
\* article goes with its identity: ids[k] is the position in the caller's
\* list of the object that articles[k] is
GroupBySource(articles, articles_by_source) ==
    IF articles = <<>> THEN articles_by_source
    ELSE LET article == Head(articles)
             id == GroupedSoFar(articles_by_source) + 1
             source == get_source(article)
             known == \E g \in 1..Len(articles_by_source) :
                         articles_by_source[g].source = source
             with_key == IF known THEN articles_by_source
                         ELSE Append(articles_by_source,
                                     [source |-> source, articles |-> <<>>,
                                      ids |-> <<>>])
         IN GroupBySource(Tail(articles),
                [g \in 1..Len(with_key) |->
                    IF with_key[g].source = source
                    THEN [with_key[g] EXCEPT !.articles = Append(@, article),
                                             !.ids = Append(@, id)]
                    ELSE with_key[g]])

\* a comparison that forgets the .lower() of both names
SourceMatchesCaseSensitive(scraper_name, source_name) ==
    \/ Contains(source_name, scraper_name)
    \/ Contains(scraper_name, source_name)

\* the condition of fetch_detailed_content's scraper search
SourceMatches(scraper_name, source_name) ==
    \/ Contains(Lower(source_name), Lower(scraper_name))
    \/ Contains(Lower(scraper_name), Lower(source_name))

\* a search that falls back to the first registered scraper
FindScraperOrFirst(registry, source_name) ==
    LET matching == {i \in 1..Len(registry) : SourceMatches(registry[i].name, source_name)}
    IN IF matching = {} THEN <<registry[1]>>
       ELSE <<registry[CHOOSE i \in matching : \A j \in matching : i <= j]>>

\* a search that prefers the registry entry whose name is the source,
\* letter case aside, to the first one that matches
FindScraperPreferExact(registry, source_name) ==
    LET matching == {i \in 1..Len(registry) : SourceMatches(registry[i].name, source_name)}
        exact == {i \in matching : Lower(registry[i].name) = Lower(source_name)}
        chosen == IF exact = {} THEN matching ELSE exact
    IN IF matching = {} THEN <<>>
       ELSE <<registry[CHOOSE i \in chosen : \A j \in chosen : i <= j]>>

\* fetch_detailed_content, the scraper search: <<entry>> of the first
\* registry entry that matches, <<>> when none does
FindScraper(registry, source_name) ==
    LET matching == {i \in 1..Len(registry) : SourceMatches(registry[i].name, source_name)}
    IN IF matching = {} THEN <<>>
       ELSE <<registry[CHOOSE i \in matching : \A j \in matching : i <= j]>>

RECURSIVE DetailLoopDropFailed(_, _, _, _, _)
\* a loop that drops the article whose fetch raised
DetailLoopDropFailed(entry, source_articles, source_ids, web, acc) ==
    IF source_articles = <<>> THEN acc
    ELSE LET article == Head(source_articles)
             r == fetch_article_by_url(entry.scraper, article.url, web)
             logged == [acc EXCEPT
                          !.calls = Append(@, LogCall(entry.name, "fetch_article_by_url",
                                                      <<article.url>>, r)),
                          !.gets = @ \o r.gets]
         IN DetailLoopDropFailed(entry, Tail(source_articles), Tail(source_ids), web,
                IF r.exc = NoExc
                THEN [logged EXCEPT !.detailed_articles = Append(@, r.val[1]),
                                    !.refs = Append(@, NewObject)]
                ELSE logged)

\* a loop with the try around the whole loop: the first failure keeps the
\* originals of the failed article and of all that follow it
DetailLoopStopAtFailure(entry, source_articles, source_ids, web, acc) ==
    LET fails(i) == fetch_article_by_url(entry.scraper, source_articles[i].url,
                                         web).exc # NoExc
        n == Len(source_articles)
        stop == IF \E i \in 1..n : fails(i)
                THEN CHOOSE i \in 1..n : fails(i) /\ \A j \in 1..(i - 1) : ~fails(j)
                ELSE n
        results == [i \in 1..stop |->
                       fetch_article_by_url(entry.scraper, source_articles[i].url, web)]
    IN [acc EXCEPT
          !.calls = @ \o [i \in 1..stop |->
                            LogCall(entry.name, "fetch_article_by_url",
                                    <<source_articles[i].url>>, results[i])],
          !.gets = @ \o [i \in 1..stop |-> source_articles[i].url],
          !.detailed_articles = @ \o [i \in 1..n |->
                            IF i <= stop /\ results[i].exc = NoExc
                            THEN results[i].val[1] ELSE source_articles[i]],
          !.refs = @ \o [i \in 1..n |->
                            IF i <= stop /\ results[i].exc = NoExc
                            THEN NewObject ELSE source_ids[i]]]

RECURSIVE DetailLoopInPlace(_, _, _, _, _)
\* a loop that enriches in place: article.update(detailed), and the caller's
\* own object goes to the output
DetailLoopInPlace(entry, source_articles, source_ids, web, acc) ==
    IF source_articles = <<>> THEN acc
    ELSE LET article == Head(source_articles)
             id == Head(source_ids)
             r == fetch_article_by_url(entry.scraper, article.url, web)
             logged == [acc EXCEPT
                          !.calls = Append(@, LogCall(entry.name, "fetch_article_by_url",
                                                      <<article.url>>, r)),
                          !.gets = @ \o r.gets]
             detailed == IF r.val = <<>> THEN NoneObject ELSE r.val[1]
         IN DetailLoopInPlace(entry, Tail(source_articles), Tail(source_ids), web,
                IF r.exc = NoExc
                THEN [logged EXCEPT !.detailed_articles = Append(@, detailed),
                                    !.refs = Append(@, id),
                                    !.articles[id] = detailed]
                ELSE [logged EXCEPT !.detailed_articles = Append(@, article),
                                    !.refs = Append(@, id)])

RECURSIVE DetailLoop(_, _, _, _, _)
\* fetch_detailed_content, the loop over the articles of one source.
\* acc.articles is the caller's list with its objects as they are now (the
\* loop assigns to none of them), acc.refs says for each element of
\* detailed_articles which object it is: the caller's object of that id
\* (append(article)) or the dict the adapter built (append(detailed))
DetailLoop(entry, source_articles, source_ids, web, acc) ==
    IF source_articles = <<>> THEN acc
    ELSE LET article == Head(source_articles)
             id == Head(source_ids)
             r == fetch_article_by_url(entry.scraper, article.url, web)
             logged == [acc EXCEPT
                          !.calls = Append(@, LogCall(entry.name, "fetch_article_by_url",
                                                      <<article.url>>, r)),
                          !.gets = @ \o r.gets]
             detailed == IF r.val = <<>> THEN NoneObject ELSE r.val[1]
         IN DetailLoop(entry, Tail(source_articles), Tail(source_ids), web,
                IF r.exc = NoExc
                THEN [logged EXCEPT !.detailed_articles = Append(@, detailed),
                                    !.refs = Append(@, NewObject)]
                ELSE [logged EXCEPT !.detailed_articles = Append(@, article),
                                    !.refs = Append(@, id)])

RECURSIVE GroupLoop(_, _, _, _)
\* fetch_detailed_content, the loop over articles_by_source
GroupLoop(registry, articles_by_source, web, acc) ==
    IF articles_by_source = <<>> THEN acc
    ELSE LET group == Head(articles_by_source)
             scraper == FindScraper(registry, group.source)
         IN GroupLoop(registry, Tail(articles_by_source), web,
                IF scraper = <<>>
                THEN [acc EXCEPT !.detailed_articles = @ \o group.articles,
                                 !.refs = @ \o group.ids]
                ELSE DetailLoop(scraper[1], group.articles, group.ids, web, acc))

\* a version without the grouping: each article is resolved and fetched in
\* its turn, in input order
fetch_detailed_content_in_input_order(registry, articles, web) ==
    GroupLoop(registry,
              [i \in 1..Len(articles) |->
                  [source |-> get_source(articles[i]), articles |-> <<articles[i]>>,
                   ids |-> <<i>>]],
              web,
              [exc |-> NoExc, detailed_articles |-> <<>>, calls |-> <<>>, gets |-> <<>>,
               articles |-> articles, refs |-> <<>>])

\* ScraperManager.fetch_detailed_content:
\* [exc, detailed_articles, calls, gets, articles, refs]
fetch_detailed_content(registry, articles, web) ==
    GroupLoop(registry, GroupBySource(articles, <<>>), web,
              [exc |-> NoExc, detailed_articles |-> <<>>, calls |-> <<>>, gets |-> <<>>,
               articles |-> articles, refs |-> <<>>])

\* ScraperManager.fetch_news, its return: h is what fetch_headlines gave,
\* headlines the list handed to fetch_detailed_content and d what that gave;
\* the two calls on self are logged after the adapter calls each of them made
fetch_news_return(sources, categories, max_articles_per_source, h, headlines, d) ==
    LET h_call == LogCall("self", "fetch_headlines",
                          <<sources, categories, max_articles_per_source>>,
                          [exc |-> h.exc, val |-> h.results])
        d_call == LogCall("self", "fetch_detailed_content", <<headlines>>,
                          [exc |-> d.exc, val |-> d.detailed_articles])
    IN IF h.exc # NoExc
       THEN [exc |-> h.exc, val |-> <<>>, calls |-> Append(h.calls, h_call),
             gets |-> h.gets]
       ELSE [exc |-> d.exc, val |-> d.detailed_articles,
             calls |-> Append(Append(h.calls, h_call) \o d.calls, d_call),
             gets |-> h.gets \o d.gets]

\* a second phase that enriches the headlines of the first registered
\* source only
fetch_news_first_source_only(registry, sources, categories, max_articles_per_source, web, h) ==
    fetch_news_return(sources, categories, max_articles_per_source, h,
        SelectSeq(h.results, LAMBDA a : a.source = registry[1].scraper.source_name),
        fetch_detailed_content(registry,
            SelectSeq(h.results, LAMBDA a : a.source = registry[1].scraper.source_name),
            web))

\* ScraperManager.fetch_news from its second statement on: h is what
\* fetch_headlines gave
fetch_news_detailed(registry, sources, categories, max_articles_per_source, web, h) ==
    fetch_news_return(sources, categories, max_articles_per_source, h, h.results,
                      fetch_detailed_content(registry, h.results, web))

\* ScraperManager.fetch_news: [exc, val, calls, gets]
fetch_news(registry, sources, categories, max_articles_per_source, web) ==
    fetch_news_detailed(registry, sources, categories, max_articles_per_source, web,
        fetch_headlines(registry, sources, categories, max_articles_per_source, web))

RECURSIVE OrganizeLoopPerCategory(_, _)
\* a loop that deduplicates inside each category only
OrganizeLoopPerCategory(news_data, acc) ==
    IF news_data = <<>> THEN acc
    ELSE LET article == Head(news_data)
             url == article.url
             category == IF article.category = None \/ article.category = ""
                         THEN "uncategorized" ELSE article.category
             known == \E g \in 1..Len(acc.by_category) :
                         acc.by_category[g].category = category
             with_key == IF known THEN acc.by_category
                         ELSE Append(acc.by_category,
                                     [category |-> category, articles |-> <<>>])
             seen == \E g \in 1..Len(with_key) :
                        /\ with_key[g].category = category
                        /\ \E i \in 1..Len(with_key[g].articles) :
                              with_key[g].articles[i].url = url
         IN IF seen THEN OrganizeLoopPerCategory(Tail(news_data), acc)
            ELSE OrganizeLoopPerCategory(Tail(news_data),
                     [seen_urls |-> acc.seen_urls \cup {url},
                      by_category |->
                         [g \in 1..Len(with_key) |->
                             IF with_key[g].category = category
                             THEN [with_key[g] EXCEPT !.articles = Append(@, article)]
                             ELSE with_key[g]]])

RECURSIVE OrganizeLoop(_, _)
\* organize_by_category, the loop: acc carries by_category, a sequence of
\* [category, articles] in insertion order, and seen_urls
OrganizeLoop(news_data, acc) ==
    IF news_data = <<>> THEN acc
    ELSE LET article == Head(news_data)
             url == article.url
         IN IF url \in acc.seen_urls THEN OrganizeLoop(Tail(news_data), acc)
            ELSE LET category == IF article.category = None \/ article.category = ""
                                 THEN "uncategorized" ELSE article.category
                     known == \E g \in 1..Len(acc.by_category) :
                                 acc.by_category[g].category = category
                     with_key == IF known THEN acc.by_category
                                 ELSE Append(acc.by_category,
                                             [category |-> category, articles |-> <<>>])
                 IN OrganizeLoop(Tail(news_data),
                        [seen_urls |-> acc.seen_urls \cup {url},
                         by_category |->
                            [g \in 1..Len(with_key) |->
                                IF with_key[g].category = category
                                THEN [with_key[g] EXCEPT !.articles = Append(@, article)]
                                ELSE with_key[g]]])

\* an organize_by_category whose lists take each new record at the front,
\* as by_category[category].insert(0, article) would
organize_by_category_prepending(news_data) ==
    LET by_category == OrganizeLoop(news_data,
                                    [seen_urls |-> {}, by_category |-> <<>>]).by_category
    IN [g \in 1..Len(by_category) |->
           [by_category[g] EXCEPT
               !.articles = [i \in 1..Len(@) |-> @[Len(@) + 1 - i]]]]

\* ScraperManager.organize_by_category
organize_by_category(news_data) ==
    OrganizeLoop(news_data, [seen_urls |-> {}, by_category |-> <<>>]).by_category

(***************************************************************************)
(* ai_services.  api is the list of what the chat-completion endpoint does *)
(* at the first, the second, ... request of a call: [kind, has_articles,   *)
(* articles] with kind "error" (the request raises: invalid key, network), *)
(* "empty" (the message has no content), "text" (the content is not JSON)  *)
(* or "json" (a JSON object, with or without the key "articles", whose     *)
(* value is a list of URLs).                                               *)
(***************************************************************************)
\* select_articles, the default of max_retries
max_retries_default == 3

ApiError == [kind |-> "error", has_articles |-> FALSE, articles |-> <<>>]
ApiEmpty == [kind |-> "empty", has_articles |-> FALSE, articles |-> <<>>]
ApiText == [kind |-> "text", has_articles |-> FALSE, articles |-> <<>>]
ApiJsonWithoutKey == [kind |-> "json", has_articles |-> FALSE, articles |-> <<>>]
ApiJson(urls) == [kind |-> "json", has_articles |-> TRUE, articles |-> urls]

\* ai_services._call_selection_api: the parsed JSON, or AIServiceError
call_selection_api(response) ==
    IF response.kind = "json" THEN Returns(response, <<>>)
    ELSE Raises("AIServiceError", <<>>)

\* ai_services._validate_selection_result
validate_selection_result(selection_result, initial_articles) ==
    IF ~selection_result.has_articles THEN Raises("InvalidSelectionFormatError", <<>>)
    ELSE LET selected_articles ==
                 SelectSeq(initial_articles,
                           LAMBDA article : article.url \in Range(selection_result.articles))
         IN IF selected_articles = <<>> THEN Raises("EmptySelectionError", <<>>)
            ELSE Returns(selected_articles, <<>>)

\* the exception classes `except AIServiceError` catches
AIServiceErrors == {"AIServiceError", "InvalidSelectionFormatError", "EmptySelectionError"}

RECURSIVE SelectLoop(_, _, _, _)
\* select_articles, the while loop: [exc, val, attempts], attempts being the
\* number of requests made
SelectLoop(initial_articles, api, retries, max_retries) ==
    IF retries >= max_retries
    THEN [exc |-> "AIServiceError", val |-> <<>>, attempts |-> retries]
    ELSE LET selection_result == call_selection_api(api[retries + 1])
             selected_articles ==
                 IF selection_result.exc # NoExc THEN selection_result
                 ELSE validate_selection_result(selection_result.val, initial_articles)
         IN IF selected_articles.exc = NoExc
            THEN [exc |-> NoExc, val |-> selected_articles.val, attempts |-> retries + 1]
            ELSE SelectLoop(initial_articles, api, retries + 1, max_retries)

\* str(e) of the AIServiceError that ends select_articles, up to the list
\* of the attempts' error texts that follows it (max_retries is 3 in every call)
FailedAfter(max_retries) ==
    IF max_retries = 3 THEN "Failed after 3 attempts. Errors: "
    ELSE "Failed after n attempts. Errors: "

\* a loop that gives up one attempt early: while retries < max_retries - 1
select_articles_one_attempt_less(initial_articles, max_retries, api) ==
    SelectLoop(initial_articles, api, 0, max_retries - 1)

\* ai_services.select_articles
select_articles(initial_articles, max_retries, api) ==
    SelectLoop(initial_articles, api, 0, max_retries)

(***************************************************************************)
(* news_fetcher.  Each function builds its own ScraperManager, whose       *)
(* registry is the constructor's.  The result of fetch_top_news is the     *)
(* one-element list of the dict it returns, a record with the keys the     *)
(* dict has.                                                               *)
(***************************************************************************)
Max(a, b) == IF a >= b THEN a ELSE b

\* the per-call cap fetch_initial_article_list gives to fetch_headlines
articles_per_source(categories, max_news_per_category) ==
    Max(5, max_news_per_category \div Len(categories))

\* fetch_initial_article_list, its try block around what fetch_headlines
\* gave: an exception gives the empty list
initial_article_list(h) ==
    [exc |-> NoExc, val |-> IF h.exc = NoExc THEN h.results ELSE <<>>,
     calls |-> h.calls, gets |-> h.gets]

\* news_fetcher.fetch_initial_article_list: every exception, the division by
\* zero of an empty categories list included, gives the empty list
fetch_initial_article_list(registry, categories, max_news_per_category, web) ==
    IF Len(categories) = 0
    THEN [exc |-> NoExc, val |-> <<>>, calls |-> <<>>, gets |-> <<>>]
    ELSE initial_article_list(
             fetch_headlines(registry, PyNone, PyList(categories),
                             articles_per_source(categories, max_news_per_category),
                             web))

RECURSIVE fetch_article_details_dropping_failed(_, _, _, _)
\* a loop whose handler does not keep the original article
fetch_article_details_dropping_failed(registry, selected_articles, web, acc) ==
    IF selected_articles = <<>> THEN acc
    ELSE LET article == Head(selected_articles)
             scraper == FindScraper(registry, get_source(article))
         IN IF scraper = <<>>
            THEN fetch_article_details_dropping_failed(registry, Tail(selected_articles),
                     web, [acc EXCEPT !.detailed_articles = Append(@, article)])
            ELSE LET r == fetch_article_by_url(scraper[1].scraper, article.url, web)
                     logged == [acc EXCEPT
                                  !.calls = Append(@, LogCall(scraper[1].name,
                                                "fetch_article_by_url", <<article.url>>, r)),
                                  !.gets = @ \o r.gets]
                 IN fetch_article_details_dropping_failed(registry,
                        Tail(selected_articles), web,
                        IF r.exc # NoExc \/ r.val = <<>> THEN logged
                        ELSE [logged EXCEPT !.detailed_articles = Append(@, r.val[1])])

RECURSIVE fetch_article_details(_, _, _, _)
\* news_fetcher.fetch_article_details: acc carries detailed_articles and the
\* logs; a falsy result of fetch_article_by_url is not appended
fetch_article_details(registry, selected_articles, web, acc) ==
    IF selected_articles = <<>> THEN acc
    ELSE LET article == Head(selected_articles)
             scraper == FindScraper(registry, get_source(article))
         IN IF scraper = <<>>
            THEN fetch_article_details(registry, Tail(selected_articles), web,
                     [acc EXCEPT !.detailed_articles = Append(@, article)])
            ELSE LET r == fetch_article_by_url(scraper[1].scraper, article.url, web)
                     logged == [acc EXCEPT
                                  !.calls = Append(@, LogCall(scraper[1].name,
                                                "fetch_article_by_url", <<article.url>>, r)),
                                  !.gets = @ \o r.gets]
                 IN fetch_article_details(registry, Tail(selected_articles), web,
                        IF r.exc # NoExc
                        THEN [logged EXCEPT !.detailed_articles = Append(@, article)]
                        ELSE IF r.val = <<>> THEN logged
                        ELSE [logged EXCEPT !.detailed_articles = Append(@, r.val[1])])

\* a return of fetch_top_news without the check of the empty headline list
fetch_top_news_without_empty_check(categories, max_news_per_category, initial, selected, detailed) ==
    LET initial_call == LogCall("news_fetcher", "fetch_initial_article_list",
                                <<categories, max_news_per_category>>, initial)
        select_call == LogCall("ai_services", "select_articles", <<initial.val>>, selected)
        details_call == LogCall("news_fetcher", "fetch_article_details", <<selected.val>>,
                                [exc |-> NoExc, val |-> detailed.detailed_articles])
    IN IF selected.exc # NoExc
       THEN [exc |-> NoExc,
             val |-> <<[success |-> FALSE,
                        message |-> "Error fetching news: " \o FailedAfter(max_retries_default),
                        error |-> "FETCH_ERROR"]>>,
             calls |-> Append(Append(initial.calls, initial_call), select_call),
             gets |-> initial.gets]
       ELSE [exc |-> NoExc,
             val |-> IF detailed.detailed_articles = <<>>
                     THEN <<[success |-> FALSE,
                             message |-> "Failed to fetch detailed news for any article",
                             error |-> "NO_DETAILED_RESULTS"]>>
                     ELSE <<[success |-> TRUE, message |-> "Successfully fetched news",
                             news |-> detailed.detailed_articles]>>,
             calls |-> Append(Append(Append(initial.calls, initial_call), select_call)
                                 \o detailed.calls, details_call),
             gets |-> initial.gets \o detailed.gets]

\* news_fetcher.fetch_top_news, the dict it returns: initial, selected and
\* detailed are what its three steps gave, a step after a failed one not
\* being called
fetch_top_news_return(categories, max_news_per_category, initial, selected, detailed) ==
    LET initial_call == LogCall("news_fetcher", "fetch_initial_article_list",
                                <<categories, max_news_per_category>>, initial)
        select_call == LogCall("ai_services", "select_articles", <<initial.val>>, selected)
        details_call == LogCall("news_fetcher", "fetch_article_details", <<selected.val>>,
                                [exc |-> NoExc, val |-> detailed.detailed_articles])
    IN IF initial.val = <<>>
       THEN [exc |-> NoExc,
             val |-> <<[success |-> FALSE,
                        message |-> "Failed to fetch news for any category",
                        error |-> "NO_RESULTS"]>>,
             calls |-> Append(initial.calls, initial_call), gets |-> initial.gets]
       ELSE IF selected.exc # NoExc
       THEN [exc |-> NoExc,
             val |-> <<[success |-> FALSE,
                        message |-> "Error fetching news: " \o FailedAfter(max_retries_default),
                        error |-> "FETCH_ERROR"]>>,
             calls |-> Append(Append(initial.calls, initial_call), select_call),
             gets |-> initial.gets]
       ELSE [exc |-> NoExc,
             val |-> IF detailed.detailed_articles = <<>>
                     THEN <<[success |-> FALSE,
                             message |-> "Failed to fetch detailed news for any article",
                             error |-> "NO_DETAILED_RESULTS"]>>
                     ELSE <<[success |-> TRUE, message |-> "Successfully fetched news",
                             news |-> detailed.detailed_articles]>>,
             calls |-> Append(Append(Append(initial.calls, initial_call), select_call)
                                 \o detailed.calls, details_call),
             gets |-> initial.gets \o detailed.gets]

\* fetch_top_news from its third step on: selected is what select_articles gave
fetch_top_news_details(registry, categories, max_news_per_category, web, initial, selected) ==
    fetch_top_news_return(categories, max_news_per_category, initial, selected,
        fetch_article_details(registry, selected.val, web,
            [detailed_articles |-> <<>>, calls |-> <<>>, gets |-> <<>>]))

\* fetch_top_news from its second step on: initial is what
\* fetch_initial_article_list gave
fetch_top_news_select(registry, categories, max_news_per_category, web, api, initial) ==
    fetch_top_news_details(registry, categories, max_news_per_category, web, initial,
        select_articles(initial.val, max_retries_default, api))

\* news_fetcher.fetch_top_news: [exc, val, calls, gets], val being the dict
fetch_top_news(registry, categories, max_news_per_category, web, api) ==
    fetch_top_news_select(registry, categories, max_news_per_category, web, api,
        fetch_initial_article_list(registry, categories, max_news_per_category, web))

(***************************************************************************)
(* __main__ and email_sender.                                              *)
(***************************************************************************)
\* http.HTTPStatus
INTERNAL_SERVER_ERROR == 500
OK == 200

DEFAULT_CATEGORIES == <<"latest">>

\* fetch_top_news, the default of max_news_per_category
max_news_per_category_default == 5

\* __main__.summarize_articles, by what the request gives: the summary, or
\* the exception's text
summarize_articles(summary) ==
    IF summary.kind = "error" THEN Raises("Error calling OpenAI API", <<>>)
    ELSE IF summary.content = "" \/ summary.content = None
    THEN Raises("Failed to summarize news", <<>>)
    ELSE Returns(<<[text |-> summary.content]>>, <<>>)

\* email_sender.send_news_email, by what sending does: the response dict,
\* or the exception's text
send_news_email(mail) ==
    IF mail.kind = "no_key"
    THEN Raises("SendGrid API key not found in environment variables", <<>>)
    ELSE IF mail.kind = "send_raises" THEN Raises("HTTP Error", <<>>)
    ELSE Returns(<<[statusCode |-> mail.status_code,
                    body |-> IF mail.status_code = 202 THEN "success"
                             ELSE "email failed to send"]>>,
                 <<>>)

\* categories = args.get("categories", DEFAULT_CATEGORIES)
main_categories(args) ==
    IF args.categories.none THEN DEFAULT_CATEGORIES ELSE args.categories.items

\* a response of main without the check of news_result["success"]
main_without_success_check(args, categories, news, summarized_news, email_result) ==
    LET to_emails == args.to_emails
        news_result == news.val[1]
        news_call == LogCall("news_fetcher", "fetch_top_news", <<categories>>, news)
        summarize_call == LogCall("main", "summarize_articles", <<news_result.news>>,
                                  summarized_news)
        email_call == LogCall("email_sender", "send_news_email",
                              <<news_result.news, to_emails.items>>, email_result)
        failure(e) == <<[body |-> [success |-> FALSE,
                                   message |-> "Error in main function: " \o e,
                                   traceback |-> "Traceback"],
                         statusCode |-> INTERNAL_SERVER_ERROR]>>
    IN IF Falsy(to_emails) \/ to_emails.items = <<"">>
       THEN [exc |-> NoExc,
             val |-> failure("Email recipients not found in arguments"),
             calls |-> <<>>, gets |-> <<>>]
       ELSE IF "news" \notin DOMAIN news_result
       THEN [exc |-> NoExc,
             val |-> <<[body |-> [success |-> FALSE,
                                  message |-> "No news data available to send"],
                        statusCode |-> INTERNAL_SERVER_ERROR]>>,
             calls |-> Append(news.calls, news_call), gets |-> news.gets]
       ELSE IF summarized_news.exc # NoExc
       THEN [exc |-> NoExc, val |-> failure(summarized_news.exc),
             calls |-> Append(Append(news.calls, news_call), summarize_call),
             gets |-> news.gets]
       ELSE IF email_result.exc # NoExc
       THEN [exc |-> NoExc, val |-> failure(email_result.exc),
             calls |-> Append(Append(Append(news.calls, news_call), summarize_call),
                              email_call),
             gets |-> news.gets]
       ELSE [exc |-> NoExc,
             val |-> <<[body |-> [success |-> TRUE,
                                  message |-> "News summarized and sent successfully"],
                        statusCode |-> OK]>>,
             calls |-> Append(Append(Append(news.calls, news_call), summarize_call),
                              email_call),
             gets |-> news.gets]

\* __main__.main, the response dict: news, summarized_news and email_result
\* are what fetch_top_news, summarize_articles and send_news_email gave, a
\* step after a failed one not being called
main_return(args, categories, news, summarized_news, email_result) ==
    LET to_emails == args.to_emails
        news_result == news.val[1]
        news_call == LogCall("news_fetcher", "fetch_top_news", <<categories>>, news)
        summarize_call == LogCall("main", "summarize_articles", <<news_result.news>>,
                                  summarized_news)
        email_call == LogCall("email_sender", "send_news_email",
                              <<news_result.news, to_emails.items>>, email_result)
        failure(e) == <<[body |-> [success |-> FALSE,
                                   message |-> "Error in main function: " \o e,
                                   traceback |-> "Traceback"],
                         statusCode |-> INTERNAL_SERVER_ERROR]>>
    IN IF Falsy(to_emails) \/ to_emails.items = <<"">>
       THEN [exc |-> NoExc,
             val |-> failure("Email recipients not found in arguments"),
             calls |-> <<>>, gets |-> <<>>]
       ELSE IF ~news_result.success
       THEN [exc |-> NoExc,
             val |-> <<[body |-> [success |-> FALSE, message |-> "Failed to fetch news",
                                  error |-> news_result.error],
                        statusCode |-> INTERNAL_SERVER_ERROR]>>,
             calls |-> Append(news.calls, news_call), gets |-> news.gets]
       ELSE IF "news" \notin DOMAIN news_result
       THEN [exc |-> NoExc,
             val |-> <<[body |-> [success |-> FALSE,
                                  message |-> "No news data available to send"],
                        statusCode |-> INTERNAL_SERVER_ERROR]>>,
             calls |-> Append(news.calls, news_call), gets |-> news.gets]
       ELSE IF summarized_news.exc # NoExc
       THEN [exc |-> NoExc, val |-> failure(summarized_news.exc),
             calls |-> Append(Append(news.calls, news_call), summarize_call),
             gets |-> news.gets]
       ELSE IF email_result.exc # NoExc
       THEN [exc |-> NoExc, val |-> failure(email_result.exc),
             calls |-> Append(Append(Append(news.calls, news_call), summarize_call),
                              email_call),
             gets |-> news.gets]
       ELSE [exc |-> NoExc,
             val |-> <<[body |-> [success |-> TRUE,
                                  message |-> "News summarized and sent successfully"],
                        statusCode |-> OK]>>,
             calls |-> Append(Append(Append(news.calls, news_call), summarize_call),
                              email_call),
             gets |-> news.gets]

\* __main__.main: [exc, val, calls, gets], val being the response dict.  args
\* is [to_emails, categories], each an optional list (none: the key is
\* absent).  summary is what the summarizer's request gives: [kind, content]
\* with kind "error" (the request raises) or "text"; mail is what sending
\* does: [kind, status_code] with kind "no_key", "send_raises" or
\* "response".  The second positional argument of fetch_top_news is
\* user_interests, so that its max_news_per_category is the default
main(registry, args, web, api, summary, mail) ==
    main_return(args, main_categories(args),
        fetch_top_news(registry, main_categories(args), max_news_per_category_default,
                       web, api),
        summarize_articles(summary), send_news_email(mail))

(***************************************************************************)
(* Inputs of the adapter calls.                                            *)
(***************************************************************************)
\* listing elements: complete cards, a card without a title element, cards
\* without a link, with a relative link, with a video link, with a datetime
\* that does not parse, with a category label of their own
ListingElements ==
    { Element("Headline A", "https://x.com/a", None, None),
      Element("Headline B", "https://x.com/b", "2025-04-22T10:30:00", "AI"),
      Element(None, "https://x.com/a", None, None),
      Element("Headline", "", None, None),
      Element("Headline R", "/2025/04/22/r", None, None),
      Element("Headline V", "https://www.cnn.com/videos/v", None, None),
      Element("Headline C", "https://x.com/c", "yesterday", None) }

ListingResponses ==
    {HttpStatus(404), HttpException}
        \cup {HttpOk([elems |-> es]) : es \in SeqsUpTo(ListingElements, MaxElems)}

ApiEdges == {[has_node |-> TRUE], [has_node |-> FALSE]}

ApiResponses ==
    {HttpStatus(500), HttpException, HttpOk(ApiData(FALSE, <<>>))}
        \cup {HttpOk(ApiData(TRUE, es)) : es \in SeqsUpTo(ApiEdges, MaxElems + 1)}

\* category keys given to an adapter: in every map, in some, in none
AdapterCategories == {"default", "world", "bogus"}

\* the URL an adapter's listing call for a category requests
ListingUrl(scraper, category) ==
    IF scraper.cls = "SCMPScraper" THEN SCMP_API_URL
    ELSE IF category \in DOMAIN scraper.category_urls
    THEN UrlJoin(scraper.base_url, scraper.category_urls[category])
    ELSE scraper.base_url

(***************************************************************************)
(* Inputs of fetch_headlines.                                              *)
(***************************************************************************)
HeadlineElements ==
    { Element("Headline A", "https://x.com/a", None, None),
      Element("Headline B", "https://x.com/b", "2025-04-22T10:30:00", "AI"),
      Element("Headline C", "https://x.com/c", "yesterday", None) }

\* a page whose first card has no link
LinklessPage ==
    HttpOk([elems |-> <<Element("Headline", "", None, None),
                        Element("Headline A", "https://x.com/a", None, None)>>])

HeadlineResponses ==
    {HttpStatus(404), HttpException, LinklessPage}
        \cup {HttpOk([elems |-> es]) : es \in SeqsUpTo(HeadlineElements, MaxListing)}

SourcesArgs ==
    {PyNone, PyList(<<>>), PyList(<<"techcrunch">>), PyList(<<"cnn", "techcrunch">>),
     PyList(<<"bogus", "cnn">>), PyList(<<"techcrunch", "bogus">>)}

CategoriesArgs ==
    {PyNone, PyList(<<"latest", "default">>), PyList(<<"bogus", "default">>),
     PyList(<<"world", "default">>)}

\* the listing URLs a fetch_headlines call can request
ReachableUrls(registry, sources, categories) ==
    LET ss == IF Falsy(sources) THEN Keys(registry) ELSE sources.items
        cs == IF Falsy(categories) THEN <<"default">> ELSE categories.items
    IN { ListingUrl(Get(registry, s), c) :
           <<s, c>> \in { p \in Range(ss) \X Range(cs) :
                            /\ HasKey(registry, p[1])
                            /\ p[2] \in DOMAIN Get(registry, p[1]).category_urls } }

(***************************************************************************)
(* Inputs of fetch_detailed_content and organize_by_category.              *)
(***************************************************************************)
ArticleUrls == {"https://x.com/a", "https://x.com/b"}

\* headline records as the adapters make them, and one of an unknown source
HeadlineRecords ==
    { NewsArticle("Headline", url, None, source, "default", None) :
        url \in ArticleUrls, source \in {"TechCrunch", "CNN", "Unknown Blog"} }

ArticlePages ==
    { ArticlePage("Full title", None, "Body text",
                  <<[text |-> "Body text", ad |-> FALSE]>>, "2025-04-22T10:30:00"),
      ArticlePage(None, None, None, <<>>, None) }

ArticleResponses == {HttpStatus(404)} \cup {HttpOk(page) : page \in ArticlePages}

\* records as a caller of organize_by_category may hold them
CategorizedRecords ==
    { NewsArticle("Headline", url, None, "CNN", category, None) :
        url \in ArticleUrls, category \in {"world", "AI", None, ""} }

\* a record without the key "source"
WithoutSource(article) == [key \in DOMAIN article \ {"source"} |-> article[key]]

\* records of sources that contain a registry name, are contained in one,
\* equal one, or match none, a record of source "" and one without source
SourcedRecords ==
    { NewsArticle("Headline", "https://x.com/a", None, source, "default", None) :
        source \in {"CNN", "CNN International", "Reuters", ""} }
    \cup { WithoutSource(NewsArticle("Headline", "https://x.com/a", None, "", "default",
                                     None)) }

\* registries as a caller installs them (manager.scrapers = {...}), in
\* insertion order: the default one, two whose names contain one another,
\* in both orders, and one whose name is a part of a source
Registries ==
    { <<[name |-> "techcrunch", scraper |-> TechCrunchScraper],
        [name |-> "cnn", scraper |-> CNNScraper]>>,
      <<[name |-> "CNN", scraper |-> CNNScraper],
        [name |-> "CNN International", scraper |-> CNNScraper]>>,
      <<[name |-> "CNN International", scraper |-> CNNScraper],
        [name |-> "CNN", scraper |-> CNNScraper]>>,
      <<[name |-> "national", scraper |-> TechCrunchScraper],
        [name |-> "cnn", scraper |-> CNNScraper]>> }

(***************************************************************************)
(* Inputs of fetch_article_by_url.                                         *)
(***************************************************************************)
\* article pages: each element missing, present without text, or present
\* with text; paragraphs none, one without text, one of a promo block, two
DetailPages ==
    { ArticlePage(h1, alt_title, entry, paragraphs, time) :
        h1 \in {None, "", "Full title"},
        alt_title \in {None, "", "Alt title"},
        entry \in {None, "", "Body text"},
        paragraphs \in { <<>>, <<[text |-> "", ad |-> FALSE]>>,
                         <<[text |-> "Promo", ad |-> TRUE]>>,
                         <<[text |-> "Body text", ad |-> FALSE],
                           [text |-> "More text", ad |-> FALSE]>> },
        time \in {None, "yesterday", "2025-04-22T10:30:00"} }

DetailResponses ==
    {HttpStatus(404), HttpException} \cup {HttpOk(page) : page \in DetailPages}

(***************************************************************************)
(* Inputs of fetch_news.                                                   *)
(***************************************************************************)
\* a card both adapters accept, and one whose datetime TechCrunch cannot parse
NewsElements ==
    { Element("Headline A", "https://x.com/a", None, None),
      Element("Headline C", "https://x.com/c", "yesterday", None) }

NewsListingResponses ==
    {HttpStatus(404)}
        \cup {HttpOk([elems |-> es]) : es \in SeqsUpTo(NewsElements, MaxListing)}

NewsSourcesArgs == {PyNone, PyList(<<"cnn">>)}

(***************************************************************************)
(* Inputs of select_articles.                                              *)
(***************************************************************************)
\* what one request to the endpoint can give; "https://x.com/z" is a URL no
\* article of the list has
SelectionResponses ==
    { ApiError, ApiEmpty, ApiText, ApiJsonWithoutKey, ApiJson(<<>>),
      ApiJson(<<"https://x.com/a">>), ApiJson(<<"https://x.com/z", "https://x.com/b">>),
      ApiJson(<<"https://x.com/z">>) }

\* the lists given to the selector: headline records of CNN
\* the max_retries a caller passes: the default, smaller ones, none, and a
\* negative one
RetryLimits == {-1, 0, 1, 2, max_retries_default}

SelectorRecords ==
    { NewsArticle("Headline", url, None, "CNN", "default", None) : url \in ArticleUrls }

(***************************************************************************)
(* Inputs of fetch_top_news.                                               *)
(***************************************************************************)
\* an empty list, a category no adapter has, one both have, and two
TopNewsCategories ==
    { <<>>, <<"bogus">>, <<"default">>, <<"default", "world">> }

\* the endpoint over the three requests of one selection: an invalid key, a
\* selection accepted at once, one accepted at the second request, and one
\* that never names a listed URL
TopNewsApis ==
    { <<ApiError, ApiError, ApiError>>,
      <<ApiJson(<<"https://x.com/a", "https://x.com/c">>), ApiError, ApiError>>,
      <<ApiText, ApiJson(<<"https://x.com/a">>), ApiError>>,
      <<ApiJson(<<"https://x.com/z">>), ApiJsonWithoutKey, ApiEmpty>> }

\* the pages of the listed articles: missing, or complete
TopNewsPages == {HttpStatus(404)} \cup {HttpOk(page) : page \in ArticlePages}

(***************************************************************************)
(* Inputs of main.                                                         *)
(***************************************************************************)
\* to_emails absent, empty, the list of one empty string, one recipient;
\* categories absent or naming a category no adapter has
MainArgs ==
    [to_emails : {PyNone, PyList(<<>>), PyList(<<"">>), PyList(<<"a@x.com">>)},
     categories : {PyNone, PyList(<<"bogus">>)}]

MainListingResponses ==
    {HttpStatus(404),
     HttpOk([elems |-> <<Element("Headline A", "https://x.com/a", None, None)>>])}

MainApis ==
    { <<ApiError, ApiError, ApiError>>,
      <<ApiText, ApiJson(<<"https://x.com/a">>), ApiError>> }

Summaries ==
    { [kind |-> "error", content |-> None], [kind |-> "text", content |-> None],
      [kind |-> "text", content |-> "<p>Summary</p>"] }

\* no SENDGRID_API_KEY, a send that raises, a send answered 202, one answered 200
Mails ==
    { [kind |-> "no_key", status_code |-> 0], [kind |-> "send_raises", status_code |-> 0],
      [kind |-> "response", status_code |-> 202],
      [kind |-> "response", status_code |-> 200] }

(***************************************************************************)
(* The state machine: one call at a time, from idle to returned or raised, *)
(* and back.                                                               *)
(***************************************************************************)
NoCall == [op |-> "none"]

\* the registry ScraperManager.__init__ builds
default_scrapers ==
    <<[name |-> "techcrunch", scraper |-> TechCrunchScraper],
      [name |-> "cnn", scraper |-> CNNScraper]>>

\* ScraperManager.__init__
Init ==
    /\ scrapers = default_scrapers
    /\ pc = "idle"
    /\ call = NoCall
    /\ ret = <<>>
    /\ gets = <<>>
    /\ calls = <<>>

\* the outcome r of a call becomes the state
Finish(r) ==
    /\ pc' = IF r.exc = NoExc THEN "returned" ELSE "raised"
    /\ ret' = IF r.exc = NoExc THEN r.val ELSE <<[exception |-> r.exc]>>
    /\ gets' = r.gets

\* a call returns or raises, and its log is the calls it made
FinishLogged(r) ==
    /\ Finish(r)
    /\ calls' = r.calls

\* the URLs the headline phase lists, the article pages a call can ask for
Listed(h) == IF h.exc = NoExc THEN Urls(h.results) ELSE {}

\* scraper.fetch_articles(category, max_articles) on one adapter
CallFetchArticles ==
    /\ pc = "idle"
    /\ \E scraper \in Adapters, category \in AdapterCategories, max_articles \in 1..MaxCap :
         \E response \in IF scraper.cls = "SCMPScraper" THEN ApiResponses
                         ELSE ListingResponses :
            LET web == ListingUrl(scraper, category) :> response
            IN /\ call' = [op |-> "fetch_articles", scraper |-> scraper,
                           category |-> category, max_articles |-> max_articles,
                           web |-> web]
               /\ Finish(fetch_articles(scraper, category, max_articles, web))
    /\ UNCHANGED <<scrapers, calls>>

\* scraper.fetch_article_by_url(url) on one adapter
CallFetchArticleByUrl ==
    /\ pc = "idle"
    /\ \E scraper \in Adapters, url \in ArticleUrls, response \in DetailResponses :
         /\ call' = [op |-> "fetch_article_by_url", scraper |-> scraper, url |-> url,
                     web |-> url :> response]
         /\ Finish(fetch_article_by_url(scraper, url, url :> response))
    /\ UNCHANGED <<scrapers, calls>>

\* manager.fetch_headlines(sources, categories, max_articles_per_source)
CallFetchHeadlines ==
    /\ pc = "idle"
    /\ \E sources \in SourcesArgs, categories \in CategoriesArgs, max_articles \in 1..MaxCap :
         \E web \in [ReachableUrls(scrapers, sources, categories) -> HeadlineResponses] :
            LET r == fetch_headlines(scrapers, sources, categories, max_articles, web)
            IN /\ call' = [op |-> "fetch_headlines", sources |-> sources,
                           categories |-> categories, max_articles |-> max_articles,
                           web |-> web]
               /\ Finish([exc |-> r.exc, val |-> r.results, gets |-> r.gets])
               /\ calls' = r.calls
    /\ UNCHANGED scrapers

\* manager.fetch_detailed_content(articles), the articles being up to
\* MaxBatch of the given records
FetchDetailedContentOf(records) ==
    /\ pc = "idle"
    /\ \E articles \in SeqsUpTo(records, MaxBatch) :
         \E web \in [{articles[i].url : i \in 1..Len(articles)} -> ArticleResponses] :
            LET r == fetch_detailed_content(scrapers, articles, web)
            IN /\ call' = [op |-> "fetch_detailed_content", articles |-> articles,
                           web |-> web, articles_after |-> r.articles,
                           refs |-> r.refs]
               /\ Finish([exc |-> r.exc, val |-> r.detailed_articles, gets |-> r.gets])
               /\ calls' = r.calls
    /\ UNCHANGED scrapers

\* manager.fetch_detailed_content(articles) on headline records
CallFetchDetailedContent == FetchDetailedContentOf(HeadlineRecords)

\* manager.fetch_detailed_content(articles) on records of sources that
\* several registry names may match
CallFetchDetailedContentBySource == FetchDetailedContentOf(SourcedRecords)

\* news_fetcher.fetch_article_details(selected_articles), which makes a
\* ScraperManager of its own
CallFetchArticleDetails ==
    /\ pc = "idle"
    /\ \E selected_articles \in SeqsUpTo(HeadlineRecords, MaxBatch) :
         \E web \in [{selected_articles[i].url : i \in 1..Len(selected_articles)}
                        -> ArticleResponses] :
            LET r == fetch_article_details(default_scrapers, selected_articles, web,
                         [detailed_articles |-> <<>>, calls |-> <<>>, gets |-> <<>>])
            IN /\ call' = [op |-> "fetch_article_details",
                           selected_articles |-> selected_articles, web |-> web]
               /\ Finish([exc |-> NoExc, val |-> r.detailed_articles, gets |-> r.gets])
               /\ calls' = r.calls
    /\ UNCHANGED scrapers

\* manager.organize_by_category(news_data)
CallOrganizeByCategory ==
    /\ pc = "idle"
    /\ \E news_data \in SeqsUpTo(CategorizedRecords, MaxBatch) :
         /\ call' = [op |-> "organize_by_category", news_data |-> news_data]
         /\ Finish(Returns(organize_by_category(news_data), <<>>))
    /\ UNCHANGED <<scrapers, calls>>

\* manager.fetch_news(sources, categories, max_articles_per_source): the
\* listing pages and the pages of the articles they list
CallFetchNews ==
    /\ pc = "idle"
    /\ \E sources \in NewsSourcesArgs, max_articles \in 1..MaxCap :
         \E listings \in [ReachableUrls(scrapers, sources, PyNone) -> NewsListingResponses] :
            \E pages \in [Listed(fetch_headlines(scrapers, sources, PyNone, max_articles,
                                                 listings)) -> ArticleResponses] :
               /\ call' = [op |-> "fetch_news", sources |-> sources,
                           categories |-> PyNone, max_articles |-> max_articles,
                           web |-> listings @@ pages]
               /\ FinishLogged(fetch_news(scrapers, sources, PyNone, max_articles,
                                          listings @@ pages))
    /\ UNCHANGED scrapers

\* ai_services.select_articles(initial_articles, user_interests), max_retries
\* left at its default
CallSelectArticles ==
    /\ pc = "idle"
    /\ \E initial_articles \in SeqsUpTo(SelectorRecords, MaxBatch), max_retries \in RetryLimits :
         \E api \in [1..max_retries -> SelectionResponses] :
            LET r == select_articles(initial_articles, max_retries, api)
            IN /\ call' = [op |-> "select_articles",
                           initial_articles |-> initial_articles,
                           max_retries |-> max_retries, api |-> api]
               /\ Finish([exc |-> r.exc, val |-> r.val, gets |-> <<>>])
               /\ calls' = [i \in 1..r.attempts |->
                               LogCall("openai", "chat.completions.create", <<i>>,
                                       [exc |-> IF api[i].kind = "error"
                                                THEN "OpenAIError" ELSE NoExc,
                                        val |-> <<api[i]>>])]
    /\ UNCHANGED scrapers

\* news_fetcher.fetch_top_news(categories, user_interests, max_news_per_category)
CallFetchTopNews ==
    /\ pc = "idle"
    /\ \E categories \in TopNewsCategories, max_news_per_category \in 1..MaxCap :
         \E listings \in [IF categories = <<>> THEN {}
                            ELSE ReachableUrls(scrapers, PyNone, PyList(categories))
                              -> NewsListingResponses] :
            \E pages \in [Urls(fetch_initial_article_list(scrapers, categories,
                                   max_news_per_category, listings).val)
                             -> TopNewsPages],
               api \in TopNewsApis :
               /\ call' = [op |-> "fetch_top_news", categories |-> categories,
                           max_news_per_category |-> max_news_per_category,
                           web |-> listings @@ pages, api |-> api]
               /\ FinishLogged(fetch_top_news(scrapers, categories,
                                   max_news_per_category, listings @@ pages, api))
    /\ UNCHANGED scrapers

\* main(args)
CallMain ==
    /\ pc = "idle"
    /\ \E args \in MainArgs, api \in MainApis, summary \in Summaries, mail \in Mails :
         \E listings \in [ReachableUrls(scrapers, PyNone, PyList(main_categories(args)))
                             -> MainListingResponses] :
            \E pages \in [Urls(fetch_initial_article_list(scrapers, main_categories(args),
                                   max_news_per_category_default, listings).val)
                             -> TopNewsPages] :
               /\ call' = [op |-> "main", args |-> args, web |-> listings @@ pages,
                           api |-> api, summary |-> summary, mail |-> mail]
               /\ FinishLogged(main(scrapers, args, listings @@ pages, api, summary, mail))
    /\ UNCHANGED scrapers

\* the caller takes the result; the next call starts from idle
Return ==
    /\ pc \in {"returned", "raised"}
    /\ pc' = "idle"
    /\ call' = NoCall
    /\ ret' = <<>>
    /\ gets' = <<>>
    /\ calls' = <<>>
    /\ UNCHANGED scrapers

Next ==
    \/ CallFetchArticles
    \/ CallFetchArticleByUrl
    \/ CallFetchHeadlines
    \/ CallFetchDetailedContent
    \/ CallFetchArticleDetails
    \/ CallOrganizeByCategory
    \/ CallFetchNews
    \/ CallSelectArticles
    \/ CallFetchTopNews
    \/ CallMain
    \/ Return

Spec == Init /\ [][Next]_vars

\* a manager whose registry was assigned by its caller
InitRegistries ==
    /\ scrapers \in Registries
    /\ pc = "idle"
    /\ call = NoCall
    /\ ret = <<>>
    /\ gets = <<>>
    /\ calls = <<>>

NextRegistries ==
    \/ CallFetchDetailedContentBySource
    \/ Return

SpecRegistries == InitRegistries /\ [][NextRegistries]_vars

(***************************************************************************)
(* Properties.                                                             *)
(***************************************************************************)
RECURSIVE Flatten(_)
Flatten(lists) == IF lists = <<>> THEN <<>> ELSE Head(lists) \o Flatten(Tail(lists))

RECURSIVE FirstByUrl(_)
\* a list without the records whose URL occurs earlier in it
FirstByUrl(s) ==
    IF s = <<>> THEN <<>>
    ELSE LET n == Len(s)
             front == FirstByUrl(SubSeq(s, 1, n - 1))
         IN IF \E i \in 1..(n - 1) : s[i].url = s[n].url THEN front
            ELSE Append(front, s[n])

HeadlinesReturned == pc = "returned" /\ call.op = "fetch_headlines"

\* the (source, category) pairs of the current fetch_headlines call, sources
\* outer and categories inner, registered sources only
HeadlinePairs ==
    LET all == IF Falsy(call.sources) THEN Keys(scrapers) ELSE call.sources.items
        ss == SelectSeq(all, LAMBDA s : HasKey(scrapers, s))
        cs == IF Falsy(call.categories) THEN <<"default">> ELSE call.categories.items
    IN [k \in 1..(Len(ss) * Len(cs)) |->
           <<ss[((k - 1) \div Len(cs)) + 1], cs[((k - 1) % Len(cs)) + 1]>>]

\* what each pair's adapter returns for its listing, in pair order
HeadlineLists ==
    [k \in 1..Len(HeadlinePairs) |->
        fetch_articles(Get(scrapers, HeadlinePairs[k][1]), HeadlinePairs[k][2],
                       call.max_articles, call.web).val]

\* C1: the list fetch_headlines returns holds every URL some queried adapter
\* returned, and holds no URL twice
C1_DedupInvariant ==
    HeadlinesReturned =>
        /\ Urls(ret) = UNION {Urls(calls[k].val) : k \in 1..Len(calls)}
        /\ \A i, j \in 1..Len(ret) : i # j => ret[i].url # ret[j].url

\* an adapter returned a URL twice in one list, and two pairs returned the
\* same URL
C1_Witness ==
    /\ HeadlinesReturned
    /\ \E k \in 1..Len(calls) : \E i, j \in 1..Len(calls[k].val) :
          i # j /\ calls[k].val[i].url = calls[k].val[j].url
    /\ \E k, l \in 1..Len(calls) :
          k # l /\ calls[k].name # calls[l].name
               /\ Urls(calls[k].val) \cap Urls(calls[l].val) # {}

\* C2: the record kept for a URL is the one of the earliest pair that
\* returned this URL, whatever source the later ones come from
C2_FirstSeenWins ==
    HeadlinesReturned =>
        LET all == Flatten(HeadlineLists)
        IN \A i \in 1..Len(ret) :
              LET first == CHOOSE k \in 1..Len(all) :
                              /\ all[k].url = ret[i].url
                              /\ \A m \in 1..(k - 1) : all[m].url # ret[i].url
              IN ret[i] = all[first]

\* two sources returned the same URL and the record of the first is kept
C2_Witness ==
    /\ HeadlinesReturned
    /\ \E k, l \in 1..Len(calls) :
          /\ k < l
          /\ \A m \in 1..(k - 1) : calls[m].val = <<>>
          /\ \E a \in Range(calls[k].val), b \in Range(calls[l].val) :
                a.url = b.url /\ a.source # b.source /\ a \in Range(ret)
                   /\ b \notin Range(ret)

\* C3: the returned list is the concatenation of the adapters' lists in pair
\* order, without the records whose URL occurred earlier
C3_OrderInvariant ==
    HeadlinesReturned => ret = FirstByUrl(Flatten(HeadlineLists))

\* two sources and two categories were queried, each source gave records, one
\* of them a duplicate
C3_Witness ==
    /\ HeadlinesReturned
    /\ Len(calls) = 4
    /\ Len(ret) >= 2
    /\ ret[1].source # ret[Len(ret)].source
    /\ Len(Flatten(HeadlineLists)) > Len(ret)

ArticlesCall == call.op = "fetch_articles"

\* C4: fetch_articles(category, N) returns at most N records
C4_CapInvariant ==
    (pc = "returned" /\ ArticlesCall) => Len(ret) <= call.max_articles

\* the page holds more candidates than the cap, and the cap is reached
C4_Witness ==
    /\ pc = "returned" /\ ArticlesCall
    /\ call.scraper.cls # "SCMPScraper"
    /\ \E u \in DOMAIN call.web :
          /\ call.web[u].status = 200
          /\ Len(call.web[u].body.elems) > call.max_articles
    /\ Len(ret) = call.max_articles

UnknownCategory == call.category \notin DOMAIN call.scraper.category_urls

\* C9 as claimed: whatever fails inside one listing, fetch_headlines returns
\* and holds the records of the pairs that did not fail
C9_FailuresNeverAbort ==
    (pc # "idle" /\ call.op = "fetch_headlines") =>
        /\ pc = "returned"
        /\ \A k \in 1..Len(HeadlinePairs) :
              LET r == fetch_articles(Get(scrapers, HeadlinePairs[k][1]),
                                      HeadlinePairs[k][2], call.max_articles, call.web)
              IN r.exc = NoExc => Urls(r.val) \subseteq Urls(ret)

\* C10 as claimed: on every adapter an unknown category gives the empty list,
\* no exception and no request
C10_UnknownCategoryEmpty ==
    (pc # "idle" /\ ArticlesCall /\ UnknownCategory) =>
        pc = "returned" /\ ret = <<>> /\ gets = <<>>

DetailCall == call.op = "fetch_detailed_content"

\* the input of the current fetch_detailed_content call, stably regrouped by
\* source value: groups in order of first occurrence, input order inside
Regrouped ==
    LET articles == call.articles
        n == Len(articles)
        first(i) == CHOOSE j \in 1..n :
                       /\ get_source(articles[j]) = get_source(articles[i])
                       /\ \A m \in 1..(j - 1) :
                             get_source(articles[m]) # get_source(articles[i])
        key(i) == first(i) * (n + 1) + i
        rank(i) == Cardinality({j \in 1..n : key(j) <= key(i)})
    IN [k \in 1..n |-> articles[CHOOSE i \in 1..n : rank(i) = k]]

\* some registered name matches the record's source
Routed(article) ==
    \E e \in 1..Len(scrapers) : SourceMatches(scrapers[e].name, get_source(article))

\* the article's page cannot be fetched
PageFails(article) ==
    call.web[article.url].kind = "exception" \/ call.web[article.url].status # 200

\* C5: fetch_detailed_content returns exactly as many records as it was given
C5_DetailKeepsCount ==
    (pc # "idle" /\ DetailCall) => pc = "returned" /\ Len(ret) = Len(call.articles)

\* one batch with the three outcomes: enriched, fetch raised, no adapter
C5_Witness ==
    /\ pc = "returned" /\ DetailCall
    /\ \E k \in 1..Len(calls) : calls[k].exc # NoExc
    /\ \E k \in 1..Len(calls) : calls[k].exc = NoExc
    /\ \E i \in 1..Len(call.articles) : ~Routed(call.articles[i])

\* C6: an article whose fetch raises keeps its original record in its place,
\* every other routed article is still fetched, and the call returns
C6_BestEffortEnrichment ==
    (pc # "idle" /\ DetailCall) =>
        /\ pc = "returned"
        /\ Len(ret) = Len(Regrouped)
        /\ \A i \in 1..Len(Regrouped) :
              (Routed(Regrouped[i]) /\ PageFails(Regrouped[i])) => ret[i] = Regrouped[i]
        /\ Len(calls) = Cardinality({i \in 1..Len(Regrouped) : Routed(Regrouped[i])})

\* the first fetch of the batch raised and a later one of the same source
\* succeeded
C6_Witness ==
    /\ pc = "returned" /\ DetailCall
    /\ Len(calls) >= 2
    /\ calls[1].exc # NoExc
    /\ ret[1] = Regrouped[1]
    /\ \E k \in 2..Len(calls) : calls[k].exc = NoExc /\ calls[k].name = calls[1].name

\* C7: a record whose source matches no registered name comes back
\* unmodified, no fetch_article_by_url call is made for it, nothing is raised
C7_RoutingFailurePassesThrough ==
    (pc # "idle" /\ DetailCall) =>
        /\ pc = "returned"
        /\ \A i \in 1..Len(Regrouped) :
              ~Routed(Regrouped[i]) =>
                 /\ i <= Len(ret) /\ ret[i] = Regrouped[i]
                 /\ Cardinality({k \in 1..Len(calls) :
                                    calls[k].args = <<Regrouped[i].url>>})
                      = Cardinality({j \in 1..Len(Regrouped) :
                                        /\ Routed(Regrouped[j])
                                        /\ Regrouped[j].url = Regrouped[i].url})

\* an "Unknown Blog" record in a batch whose other record, of the same URL,
\* was enriched
C7_Witness ==
    /\ pc = "returned" /\ DetailCall
    /\ \E i, j \in 1..Len(call.articles) :
          /\ call.articles[i].source = "Unknown Blog"
          /\ Routed(call.articles[j])
          /\ call.articles[i].url = call.articles[j].url
          /\ ~PageFails(call.articles[j])
    /\ \E k \in 1..Len(calls) : calls[k].exc = NoExc

OrganizeReturned == pc = "returned" /\ call.op = "organize_by_category"

\* C8: the lists of organize_by_category hold exactly the distinct URLs of
\* the input, each in one list and once; an empty input gives an empty map
C8_GroupingCompleteness ==
    OrganizeReturned =>
        /\ UNION {Urls(ret[g].articles) : g \in 1..Len(ret)} = Urls(call.news_data)
        /\ \A u \in Urls(call.news_data) :
              Cardinality({p \in {<<g, i>> : g \in 1..Len(ret), i \in 1..Len(call.news_data)} :
                              /\ p[2] <= Len(ret[p[1]].articles)
                              /\ ret[p[1]].articles[p[2]].url = u}) = 1
        /\ call.news_data = <<>> => ret = <<>>

\* an input that repeats a URL under another category, filed under two labels
C8_Witness ==
    /\ OrganizeReturned
    /\ Len(ret) >= 2
    /\ \E i, j \in 1..Len(call.news_data) :
          /\ i # j
          /\ call.news_data[i].url = call.news_data[j].url
          /\ call.news_data[i].category # call.news_data[j].category

\* a sources argument that names registered and unregistered sources
MixedSources ==
    /\ call.op = "fetch_headlines"
    /\ \E s \in Range(call.sources.items) : HasKey(scrapers, s)
    /\ \E s \in Range(call.sources.items) : ~HasKey(scrapers, s)

\* the sources argument without its unregistered names
RegisteredOnly == PyList(SelectSeq(call.sources.items, LAMBDA s : HasKey(scrapers, s)))

\* C11 as claimed: with registered and unregistered names mixed, fetch_headlines
\* raises nothing, calls no adapter under an unregistered name, and returns
\* the list of the call without the unregistered names
C11_UnknownSourcesSkipped ==
    (pc # "idle" /\ MixedSources) =>
        /\ pc = "returned"
        /\ \A k \in 1..Len(calls) : HasKey(scrapers, calls[k].name)
        /\ ret = fetch_headlines(scrapers, RegisteredOnly, call.categories,
                                 call.max_articles, call.web).results

\* the adapter names of the logged calls, in call order
CalledNames == [k \in 1..Len(calls) |-> calls[k].name]

\* C12 as claimed: without sources every registered adapter is queried, in
\* registry order; without categories the one category "default" is queried,
\* each queried adapter exactly once; without both, each registered adapter
\* exactly once
C12_Defaults ==
    (pc # "idle" /\ call.op = "fetch_headlines") =>
        /\ Falsy(call.sources) =>
              /\ \A e \in 1..Len(scrapers) : scrapers[e].name \in Range(CalledNames)
              /\ \A k, l \in 1..Len(calls) :
                    \A e, f \in 1..Len(scrapers) :
                       (k < l /\ calls[k].name = scrapers[e].name
                              /\ calls[l].name = scrapers[f].name) => e <= f
        /\ Falsy(call.categories) =>
              /\ \A k \in 1..Len(calls) : calls[k].args[1] = "default"
              /\ \A k, l \in 1..Len(calls) : calls[k].name = calls[l].name => k = l
        /\ (Falsy(call.sources) /\ Falsy(call.categories)) => CalledNames = Keys(scrapers)

NewsCall == call.op = "fetch_news"

\* the logged calls of one method
CallsOf(method) == SelectSeq(calls, LAMBDA c : c.method = method)

\* the records of the current detail batch that some adapter is found for, in
\* the order the detail loop meets them
RoutedBatch == SelectSeq(Regrouped, Routed)

\* C13: a record whose source is the display name of a registered adapter is
\* fetched with fetch_article_by_url on that adapter, and on no other: in a
\* fetch_detailed_content call the fetch made for the record is on its
\* adapter; in a fetch_news call every headline that a fetch_articles call of
\* adapter n produced is fetched exactly once, on n
C13_RoundTripRouting ==
    /\ (pc # "idle" /\ DetailCall) =>
          /\ Len(calls) = Len(RoutedBatch)
          /\ \A k \in 1..Len(RoutedBatch) : \A e \in 1..Len(scrapers) :
                RoutedBatch[k].source = scrapers[e].scraper.source_name =>
                   /\ calls[k].method = "fetch_article_by_url"
                   /\ calls[k].name = scrapers[e].name
                   /\ calls[k].args = <<RoutedBatch[k].url>>
    /\ (pc = "returned" /\ NewsCall) =>
          LET headlines == CallsOf("fetch_headlines")[1].val
          IN \A k \in 1..Len(calls) :
                calls[k].method = "fetch_articles" =>
                   \A i \in 1..Len(calls[k].val) :
                      calls[k].val[i] \in Range(headlines) =>
                         LET fetched == {m \in 1..Len(calls) :
                                           /\ calls[m].method = "fetch_article_by_url"
                                           /\ calls[m].args = <<calls[k].val[i].url>>}
                         IN /\ Cardinality(fetched) = 1
                            /\ \A m \in fetched : calls[m].name = calls[k].name

\* fetch_news listed records of both adapters and fetched the page of each on
\* the adapter that listed it
C13_Witness ==
    /\ pc = "returned" /\ NewsCall
    /\ \E k, l \in 1..Len(calls) :
          /\ calls[k].method = "fetch_article_by_url" /\ calls[k].name = "techcrunch"
          /\ calls[l].method = "fetch_article_by_url" /\ calls[l].name = "cnn"
          /\ calls[k].exc = NoExc /\ calls[l].exc = NoExc
          /\ calls[k].val[1].source = "TechCrunch" /\ calls[l].val[1].source = "CNN"

\* the cards of the page an adapter call got that the selector kept
SelectedElements ==
    LET u == ListingUrl(call.scraper, call.category)
    IN IF call.web[u].kind = "response" /\ call.web[u].status = 200
       THEN Take(call.web[u].body.elems, call.max_articles)
       ELSE <<>>

\* C14: no record returned by an adapter's fetch_articles, and no record in
\* the list fetch_headlines returns, has an empty url; a card without a link
\* gives no record
C14_UrlNeverEmpty ==
    /\ (pc = "returned" /\ ArticlesCall) =>
          /\ \A i \in 1..Len(ret) : ret[i].url # "" /\ ret[i].url # None
          /\ call.scraper.cls # "SCMPScraper" =>
                Len(ret) <= Cardinality({i \in 1..Len(SelectedElements) :
                                           SelectedElements[i].href # ""})
    /\ HeadlinesReturned =>
          /\ \A i \in 1..Len(ret) : ret[i].url # "" /\ ret[i].url # None
          /\ \A k \in 1..Len(calls) : \A i \in 1..Len(calls[k].val) :
                calls[k].val[i].url # ""

\* TechCrunch's page holds a card without a link among cards with one, and
\* the call returns the records of the others
C14_Witness ==
    /\ pc = "returned" /\ ArticlesCall
    /\ call.scraper.cls = "TechCrunchScraper"
    /\ \E i \in 1..Len(SelectedElements) :
          SelectedElements[i].href = "" /\ SelectedElements[i].title # None
    /\ Len(ret) = Len(SelectedElements) - 1
    /\ Len(ret) >= 1

\* C15: fetch_news calls fetch_headlines once, with its own arguments; when
\* that call returns a list, fetch_news calls fetch_detailed_content once, on
\* exactly this list and after it, and returns what fetch_detailed_content
\* returned; when it raises, fetch_news raises the same exception and the
\* detail phase is not called
C15_FetchNewsComposition ==
    (pc # "idle" /\ NewsCall) =>
        LET hs == CallsOf("fetch_headlines")
            ds == CallsOf("fetch_detailed_content")
        IN /\ Len(hs) = 1
           /\ hs[1].args = <<call.sources, call.categories, call.max_articles>>
           /\ hs[1].exc = NoExc =>
                 /\ Len(ds) = 1
                 /\ ds[1].args = <<hs[1].val>>
                 /\ calls[Len(calls)] = ds[1]
                 /\ \A k \in 1..Len(calls) :
                       calls[k].method = "fetch_article_by_url" =>
                          \E m \in 1..(k - 1) : calls[m] = hs[1]
                 /\ pc = "returned"
                 /\ ret = ds[1].val
           /\ hs[1].exc # NoExc =>
                 ds = <<>> /\ pc = "raised" /\ ret = <<[exception |-> hs[1].exc]>>

\* fetch_news listed records of two sources and the detail phase replaced
\* them by the records of their pages
C15_Witness ==
    /\ pc = "returned" /\ NewsCall
    /\ Len(ret) >= 2
    /\ ret[1].source # ret[2].source
    /\ ret # CallsOf("fetch_headlines")[1].val
    /\ call.max_articles > 1

TopNewsCall == call.op = "fetch_top_news"

\* no fetch_articles call of the headline phase gave an article
NoSourceYielded ==
    \A k \in 1..Len(calls) :
       calls[k].method = "fetch_articles" => (calls[k].exc # NoExc \/ calls[k].val = <<>>)

\* C16: when the headline phase yields no article, fetch_top_news returns
\* success False with error NO_RESULTS, and neither select_articles nor the
\* detail phase is called
C16_ZeroResultsFail ==
    (pc # "idle" /\ TopNewsCall
        /\ (NoSourceYielded \/ CallsOf("fetch_initial_article_list")[1].val = <<>>)) =>
        /\ pc = "returned"
        /\ ret[1].success = FALSE
        /\ ret[1].error = "NO_RESULTS"
        /\ "news" \notin DOMAIN ret[1]
        /\ CallsOf("select_articles") = <<>>
        /\ CallsOf("fetch_article_details") = <<>>
        /\ CallsOf("fetch_article_by_url") = <<>>
        /\ Len(CallsOf("fetch_initial_article_list")) = 1

\* both adapters were queried, their pages held no card, and the endpoint
\* would have accepted a selection
C16_Witness ==
    /\ pc = "returned" /\ TopNewsCall
    /\ ~ret[1].success /\ ret[1].error = "NO_RESULTS"
    /\ Len(CallsOf("fetch_articles")) >= 2
    /\ \A u \in DOMAIN call.web : call.web[u].status = 200
    /\ call.api[1].kind = "json"

SelectCall == call.op = "select_articles"

\* every request of the call raises, as with an invalid key
ApiAlwaysFails ==
    /\ DOMAIN call.api # {}
    /\ \A i \in DOMAIN call.api : call.api[i].kind = "error"

\* 25% of n, rounded up
QuarterRoundedUp(n) == (n + 3) \div 4

\* C17 as claimed: when the selection requests fail, select_articles raises
\* nothing and returns a non-empty part of its input, a quarter of it
\* rounded up, made of input records
C17_SelectorFallback ==
    (pc # "idle" /\ SelectCall /\ ApiAlwaysFails /\ call.initial_articles # <<>>) =>
        /\ pc = "returned"
        /\ Len(ret) >= 1
        /\ Len(ret) = QuarterRoundedUp(Len(call.initial_articles))
        /\ \A i \in 1..Len(ret) : ret[i] \in Range(call.initial_articles)

MainCall == call.op = "main"

\* the check of to_emails in main fails
NoRecipients == Falsy(call.args.to_emails) \/ call.args.to_emails.items = <<"">>

\* C18: without recipients main returns status 500 with a message that
\* holds "Email recipients not found" and calls none of fetch_top_news, the
\* summarizer and the email sender; when fetch_top_news reports success
\* False main returns status 500 with the message "Failed to fetch news" and
\* calls neither the summarizer nor the email sender
C18_MainStopsAtFirstFailure ==
    (pc # "idle" /\ MainCall) =>
        /\ pc = "returned"
        /\ NoRecipients =>
              /\ ret[1].statusCode = 500
              /\ ~ret[1].body.success
              /\ Contains(ret[1].body.message, "Email recipients not found")
              /\ calls = <<>>
        /\ \A k \in 1..Len(calls) :
              (calls[k].method = "fetch_top_news" /\ ~calls[k].val[1].success) =>
                 /\ ret[1].statusCode = 500
                 /\ ~ret[1].body.success
                 /\ ret[1].body.message = "Failed to fetch news"
                 /\ CallsOf("summarize_articles") = <<>>
                 /\ CallsOf("send_news_email") = <<>>
                 /\ k = Len(calls)

\* recipients are given, the selection failed at every request, and the
\* summarizer and the sender would have worked
C18_Witness ==
    /\ pc = "returned" /\ MainCall
    /\ ~NoRecipients
    /\ Len(CallsOf("fetch_top_news")) = 1
    /\ ret[1].body.message = "Failed to fetch news"
    /\ ret[1].body.error = "FETCH_ERROR"
    /\ CallsOf("fetch_top_news")[1].val[1].error = "FETCH_ERROR"
    /\ call.summary.content # None /\ call.mail.status_code = 202

\* C19 as claimed: for a non-empty categories list, the list
\* fetch_initial_article_list returns holds at most max_news_per_category
\* articles of each requested category
C19_MaxPerCategory ==
    (pc # "idle" /\ TopNewsCall /\ call.categories # <<>>) =>
        LET initial_articles == CallsOf("fetch_initial_article_list")[1].val
        IN \A c \in Range(call.categories) :
              Cardinality({i \in 1..Len(initial_articles) :
                              initial_articles[i].category = c})
                 <= call.max_news_per_category

\* the key a record is filed under
KeyOf(article) ==
    IF article.category = None \/ article.category = "" THEN "uncategorized"
    ELSE article.category

\* C20: every first-occurrence record of the input is in the list keyed by
\* its category, or by "uncategorized" when its category is absent or
\* empty, and in no other list; and every list is the first-occurrence
\* records of its key in the order of the input
C20_PlacementAndOrder ==
    OrganizeReturned =>
        LET firsts == FirstByUrl(call.news_data)
        IN /\ \A i \in 1..Len(firsts) :
                 \E g \in 1..Len(ret) :
                    /\ ret[g].category = KeyOf(firsts[i])
                    /\ firsts[i] \in Range(ret[g].articles)
                    /\ \A h \in 1..Len(ret) :
                          firsts[i] \in Range(ret[h].articles) => h = g
           /\ \A g \in 1..Len(ret) :
                 ret[g].articles =
                    SelectSeq(firsts, LAMBDA article : KeyOf(article) = ret[g].category)

\* a record without category and one with an empty category share the list
\* "uncategorized" in input order, and a later record repeating a URL under
\* a category of its own is not filed
C20_Witness ==
    /\ OrganizeReturned
    /\ Len(call.news_data) = 3
    /\ call.news_data[1].category = None
    /\ call.news_data[2].category = ""
    /\ call.news_data[3].category = "world"
    /\ ret = <<[category |-> "uncategorized",
                articles |-> <<call.news_data[1], call.news_data[2]>>]>>

\* the response the listing request of the current fetch_articles call gets
ListingResponse == call.web[ListingUrl(call.scraper, call.category)]

\* the listing request of the current fetch_articles call fails: a timeout or
\* a network exception, or a status that is not a success
TransportFails ==
    ListingResponse.kind = "exception" \/ ListingResponse.status # 200

\* C21: fetch_html_content gives a document only for a response with a
\* success status, and nothing otherwise; a fetch_articles call whose listing
\* request fails returns the empty list and raises nothing
C21_SoftTransportFailure ==
    (pc # "idle" /\ ArticlesCall) =>
        /\ \A u \in DOMAIN call.web :
              LET soup == fetch_html_content(u, call.web)
              IN /\ soup # <<>> =>
                       call.web[u].kind = "response" /\ call.web[u].status = 200
                 /\ (call.web[u].kind = "exception" \/ call.web[u].status # 200) =>
                       soup = <<>>
        /\ TransportFails => pc = "returned" /\ ret = <<>>

\* CNN's page of a category it has is requested and the request ends in a
\* network exception
C21_Witness ==
    /\ pc = "returned" /\ ArticlesCall
    /\ call.scraper.cls = "CNNScraper"
    /\ call.category \in DOMAIN call.scraper.category_urls
    /\ ListingResponse.kind = "exception"
    /\ gets = <<ListingUrl(call.scraper, call.category)>>
    /\ ret = <<>>

ByUrlCall == call.op = "fetch_article_by_url"

\* the page of the current fetch_article_by_url call was fetched
PageFetched ==
    call.web[call.url].kind = "response" /\ call.web[call.url].status = 200

\* the page has no title element with text: no headline element or one
\* without text, and no title attribute or an empty one
NoTitleText(page) == page.h1 \in {None, ""} /\ page.alt_title \in {None, ""}

\* the page has no content element with text
NoContentText(cls, page) ==
    IF cls = "TechCrunchScraper" THEN page.entry \in {None, ""}
    ELSE \A i \in 1..Len(page.paragraphs) :
            page.paragraphs[i].ad \/ page.paragraphs[i].text = ""

\* C22 as claimed: when the page is fetched, fetch_article_by_url of CNN and
\* of TechCrunch returns a record whose title and content are non-empty
\* strings, the placeholders "No title found" and "No content available."
\* standing where the element is missing or has no text
C22_SentinelPlaceholders ==
    (pc # "idle" /\ ByUrlCall /\ call.scraper.cls # "SCMPScraper" /\ PageFetched) =>
        /\ pc = "returned"
        /\ Len(ret) = 1
        /\ ret[1].title \notin {"", None}
        /\ ret[1].content \notin {"", None}
        /\ NoTitleText(call.web[call.url].body) => ret[1].title = "No title found"
        /\ NoContentText(call.scraper.cls, call.web[call.url].body) =>
              ret[1].content = "No content available."

\* the part of C22 that holds: nothing is raised for a fetched page, the
\* title and the content are strings, and a missing element gives the
\* placeholder
C22_MissingElementPlaceholders ==
    (pc # "idle" /\ ByUrlCall /\ call.scraper.cls # "SCMPScraper" /\ PageFetched) =>
        LET page == call.web[call.url].body
        IN /\ pc = "returned"
           /\ Len(ret) = 1
           /\ ret[1].title # None /\ ret[1].content # None
           /\ (page.h1 = None /\ page.alt_title = None) =>
                 ret[1].title = "No title found"
           /\ (call.scraper.cls = "TechCrunchScraper" /\ page.entry = None) =>
                 ret[1].content = "No content available."
           /\ (call.scraper.cls = "CNNScraper" /\ page.paragraphs = <<>>) =>
                 ret[1].content = "No content available."
           /\ call.scraper.cls = "CNNScraper" => ret[1].title # ""

\* C23: fetch_detailed_content replaces and never edits in place: after the
\* call the caller's list has the length, the order and the records it had,
\* field for field, headline records still without content; every place of
\* the output whose article was fetched holds an object made during the call,
\* which differs from the record it replaces, and every other place holds
\* the caller's own object, as it was
C23_ReplacesNeverEdits ==
    (pc # "idle" /\ DetailCall) =>
        /\ call.articles_after = call.articles
        /\ \A i \in 1..Len(call.articles_after) : call.articles_after[i].content = None
        /\ Len(call.refs) = Len(ret)
        /\ Len(ret) = Len(Regrouped)
        /\ \A i \in 1..Len(ret) :
              IF Routed(Regrouped[i]) /\ ~PageFails(Regrouped[i])
              THEN call.refs[i] = NewObject /\ ret[i] # Regrouped[i]
              ELSE /\ call.refs[i] \in 1..Len(call.articles)
                   /\ ret[i] = call.articles[call.refs[i]]
                   /\ ret[i] = Regrouped[i]

\* a batch of two records of one source, the first enriched and the second
\* kept because its page could not be fetched
C23_Witness ==
    /\ pc = "returned" /\ DetailCall
    /\ Len(ret) >= 2
    /\ call.refs[1] = NewObject /\ ret[1].content # None
    /\ call.refs[2] = 2 /\ ret[2] = call.articles[2]
    /\ call.articles[1].source = call.articles[2].source

\* the registry name and the source, both in lower case, one within the other
NameMatches(e, source) ==
    LET name == Lower(scrapers[e].name)
        wanted == Lower(source)
    IN Contains(name, wanted) \/ Contains(wanted, name)

\* the place in the registry of the first name that matches the source, 0
\* when none does
FirstMatch(source) ==
    IF \E e \in 1..Len(scrapers) : NameMatches(e, source)
    THEN CHOOSE e \in 1..Len(scrapers) :
            NameMatches(e, source) /\ \A f \in 1..(e - 1) : ~NameMatches(f, source)
    ELSE 0

\* the records of the current batch whose source some registry name matches,
\* in the order the detail loop meets them
Resolved == SelectSeq(Regrouped, LAMBDA a : FirstMatch(get_source(a)) # 0)

\* C24: fetch_detailed_content fetches each record whose source some registry
\* name matches (either lower-cased string within the other) on the first
\* such entry in insertion order, also when a later name is the source
\* itself, all records of one source on the same entry, and fetches no other
\* record
C24_FirstRegistryMatchWins ==
    (pc # "idle" /\ DetailCall) =>
        /\ Len(calls) = Len(Resolved)
        /\ \A k \in 1..Len(Resolved) :
              /\ calls[k].method = "fetch_article_by_url"
              /\ calls[k].name = scrapers[FirstMatch(get_source(Resolved[k]))].name
              /\ calls[k].args = <<Resolved[k].url>>
        /\ \A k, l \in 1..Len(Resolved) :
              get_source(Resolved[k]) = get_source(Resolved[l])
                 => calls[k].name = calls[l].name

\* with "CNN" registered before "CNN International", two records of source
\* "CNN International" were both fetched on "CNN"
C24_Witness ==
    /\ pc = "returned" /\ DetailCall
    /\ Len(scrapers) = 2
    /\ scrapers[1].name = "CNN" /\ scrapers[2].name = "CNN International"
    /\ \E k, l \in 1..Len(calls) :
          /\ k # l
          /\ calls[k].name = "CNN" /\ calls[l].name = "CNN"
          /\ get_source(Resolved[k]) = "CNN International"
          /\ get_source(Resolved[l]) = "CNN International"

\* the logged calls of the current call are exactly one per element of
\* wanted, in order: the same adapter, method and first argument
OncePerElement(method, wanted) ==
    /\ Len(calls) = Len(wanted)
    /\ \A k \in 1..Len(wanted) :
          /\ calls[k].method = method
          /\ calls[k].name = wanted[k][1]
          /\ calls[k].args[1] = wanted[k][2]

\* the routed records of the current detail batch as (adapter name, URL)
RoutedFetches ==
    [k \in 1..Len(RoutedBatch) |->
        <<FindScraper(scrapers, RoutedBatch[k].source)[1].name, RoutedBatch[k].url>>]

\* C25 as claimed: a fetch_headlines call calls fetch_articles exactly once
\* for each pair of a registered source and a category, and a
\* fetch_detailed_content call calls fetch_article_by_url exactly once for
\* each routed article, whether calls fail, return nothing, or succeed
C25_NoRetries ==
    /\ (pc # "idle" /\ call.op = "fetch_headlines") =>
          OncePerElement("fetch_articles", HeadlinePairs)
    /\ (pc # "idle" /\ DetailCall) =>
          OncePerElement("fetch_article_by_url", RoutedFetches)

\* what holds of C25: no call is made twice, since the calls made are the
\* first pairs and the first routed articles, one call each; every pair is
\* called when fetch_headlines returns, and every routed article always
C25_NoCallRepeated ==
    /\ (pc # "idle" /\ call.op = "fetch_headlines") =>
          /\ Len(calls) <= Len(HeadlinePairs)
          /\ OncePerElement("fetch_articles", SubSeq(HeadlinePairs, 1, Len(calls)))
          /\ pc = "returned" => Len(calls) = Len(HeadlinePairs)
          /\ pc = "raised" => calls[Len(calls)].exc # NoExc
    /\ (pc # "idle" /\ DetailCall) =>
          OncePerElement("fetch_article_by_url", RoutedFetches)

\* the i-th response of the selection API validates: it parses, has the key
\* 'articles' and names the URL of at least one input record
Validates(i) ==
    /\ call.api[i].kind = "json"
    /\ call.api[i].has_articles
    /\ \E k \in 1..Len(call.initial_articles) :
          call.initial_articles[k].url \in Range(call.api[i].articles)

C26_NoAttemptWitness ==
    /\ pc = "raised" /\ SelectCall
    /\ call.max_retries <= 0
    /\ calls = <<>>

\* the positions of the current detail batch, stably regrouped by source
\* value: RegroupedIds[k] is the input position of Regrouped[k]
RegroupedIds ==
    LET articles == call.articles
        n == Len(articles)
        first(i) == CHOOSE j \in 1..n :
                       /\ get_source(articles[j]) = get_source(articles[i])
                       /\ \A m \in 1..(j - 1) :
                             get_source(articles[m]) # get_source(articles[i])
        key(i) == first(i) * (n + 1) + i
        rank(i) == Cardinality({j \in 1..n : key(j) <= key(i)})
    IN [k \in 1..n |-> CHOOSE i \in 1..n : rank(i) = k]

\* records of the same source are next to one another in the input
SourcesContiguous ==
    \A i, j, k \in 1..Len(call.articles) :
       (i < j /\ j < k /\ call.articles[i].source = call.articles[k].source)
          => call.articles[j].source = call.articles[i].source

\* C27: the output of fetch_detailed_content is the input stably regrouped
\* by source value: its k-th place holds the input record of the k-th place
\* of the regrouping, that very object or the record fetched for its URL;
\* source groups come in order of first occurrence and input order is kept
\* inside a group; hence the output follows the input's order exactly when
\* the records of each source are contiguous in the input
C27_StableRegroupOrder ==
    (pc # "idle" /\ DetailCall) =>
        /\ pc = "returned"
        /\ Len(ret) = Len(call.articles)
        /\ \A k \in 1..Len(ret) :
              /\ call.articles[RegroupedIds[k]] = Regrouped[k]
              /\ \/ call.refs[k] = RegroupedIds[k] /\ ret[k] = Regrouped[k]
                 \/ call.refs[k] = NewObject /\ ret[k].url = Regrouped[k].url
        /\ \A k, l \in 1..Len(ret) :
              k < l =>
                 \/ /\ Regrouped[k].source = Regrouped[l].source
                    /\ RegroupedIds[k] < RegroupedIds[l]
                 \/ /\ Regrouped[k].source # Regrouped[l].source
                    /\ \E i \in 1..Len(call.articles) :
                          /\ call.articles[i].source = Regrouped[k].source
                          /\ \A j \in 1..i : call.articles[j].source # Regrouped[l].source
        /\ (\A k \in 1..Len(ret) : RegroupedIds[k] = k) <=> SourcesContiguous

\* a batch CNN, TechCrunch, CNN whose three pages were fetched: the output
\* holds the two CNN records first, and its second place is not the record
\* of the input's second place
C27_Witness ==
    /\ pc = "returned" /\ DetailCall
    /\ Len(call.articles) = 3
    /\ call.articles[1].source = "CNN" /\ call.articles[2].source = "TechCrunch"
    /\ call.articles[3].source = "CNN"
    /\ call.articles[1].url # call.articles[3].url
    /\ \A k \in 1..3 : call.refs[k] = NewObject
    /\ ret[1].source = "CNN" /\ ret[2].source = "CNN" /\ ret[3].source = "TechCrunch"
    /\ ret[1].url = call.articles[1].url /\ ret[2].url = call.articles[3].url

\* the label organize_by_category files the record of a URL under
LabelIn(by_category, url) ==
    by_category[CHOOSE g \in 1..Len(by_category) :
                   \E i \in 1..Len(by_category[g].articles) :
                      by_category[g].articles[i].url = url].category

\* records of the same URLs are filed under the same labels
SameLabels(before, after) ==
    \A u \in Urls(before) :
       LabelIn(organize_by_category(after), u) = LabelIn(organize_by_category(before), u)

\* C28 as claimed: a record enriched by fetch_detailed_content, or by
\* fetch_news, has the URL and the category of the headline record it
\* replaces, and organize_by_category files the records of the enriched list
\* under the labels it files the headline records under
C28_EnrichmentKeepsCategory ==
    /\ (pc = "returned" /\ DetailCall) =>
          /\ \A k \in 1..Len(ret) :
                call.refs[k] = NewObject =>
                   /\ ret[k].url = Regrouped[k].url
                   /\ ret[k].category = Regrouped[k].category
          /\ SameLabels(call.articles, ret)
    /\ (pc = "returned" /\ NewsCall) =>
          SameLabels(CallsOf("fetch_headlines")[1].val, ret)

\* what holds of C28: the enriched record has the URL of the record it
\* replaces, its category is None, and the key organize_by_category files
\* it under is "uncategorized"
C28_EnrichmentKeepsUrl ==
    (pc = "returned" /\ DetailCall) =>
        \A k \in 1..Len(ret) :
           call.refs[k] = NewObject =>
              /\ ret[k].url = Regrouped[k].url
              /\ ret[k].category = None
              /\ KeyOf(ret[k]) = "uncategorized"

\* the record carries no source: the key is absent or its value is ""
Unattributed(article) == get_source(article) = ""

C29_UnattributedGoesToFirstAdapter ==
    (pc # "idle" /\ DetailCall /\ scrapers # <<>>) =>
        \A k \in 1..Len(Resolved) :
           Unattributed(Resolved[k]) =>
              /\ calls[k].name = scrapers[1].name
              /\ calls[k].args = <<Resolved[k].url>>

DetailsCall == call.op = "fetch_article_details"

\* how many places of a list hold the record
Count(list, record) == Cardinality({i \in 1..Len(list) : list[i] = record})

\* two lists hold the same records, each as many times
SameMultiset(a, b) ==
    /\ Len(a) = Len(b)
    /\ \A i \in 1..Len(a) : Count(a, a[i]) = Count(b, a[i])

\* what the manager's fetch_detailed_content returns for a list
ManagerDetails(articles) ==
    fetch_detailed_content(default_scrapers, articles, call.web).detailed_articles

\* what news_fetcher's fetch_article_details returns for a list
FetcherDetails(articles) ==
    fetch_article_details(default_scrapers, articles, call.web,
        [detailed_articles |-> <<>>, calls |-> <<>>, gets |-> <<>>]).detailed_articles

\* C30: with the default registry, for the same list and the same pages,
\* news_fetcher.fetch_article_details and
\* ScraperManager.fetch_detailed_content return the same records, each as
\* many times, one per input record; so the detail phase of fetch_top_news
\* returns as many records as were selected
C30_DetailImplementationsAgree ==
    /\ (pc # "idle" /\ DetailsCall) =>
          /\ pc = "returned"
          /\ Len(ret) = Len(call.selected_articles)
          /\ SameMultiset(ret, ManagerDetails(call.selected_articles))
    /\ (pc # "idle" /\ DetailCall /\ scrapers = default_scrapers) =>
          SameMultiset(ret, FetcherDetails(call.articles))
    /\ (pc # "idle" /\ TopNewsCall) =>
          \A k \in 1..Len(calls) :
             calls[k].method = "fetch_article_details" =>
                Len(calls[k].val) = Len(calls[k].args[1])

\* fetch_article_details on a batch with the three outcomes (a fetch that
\* succeeded, one that raised, a record no adapter matches) whose sources
\* are not contiguous, so that the manager returns the same records in
\* another order
C30_Witness ==
    /\ pc = "returned" /\ DetailsCall
    /\ \E k \in 1..Len(calls) : calls[k].exc # NoExc
    /\ \E k \in 1..Len(calls) : calls[k].exc = NoExc
    /\ Len(calls) < Len(call.selected_articles)
    /\ ret # ManagerDetails(call.selected_articles)

\* fetch_top_news fetched the pages of two selected articles, one failing
C30_PipelineWitness ==
    /\ pc = "returned" /\ TopNewsCall
    /\ \E k \in 1..Len(calls) :
          /\ calls[k].method = "fetch_article_details"
          /\ Len(calls[k].val) >= 2
    /\ \E k \in 1..Len(calls) :
          calls[k].method = "fetch_article_by_url" /\ calls[k].exc # NoExc

====
